---- MODULE Spec2Model ----
(***************************************************************************)
(* A model of the oscope-scpi session layer: the SCPI base class           *)
(* (oscope_scpi/scpi.py), the Oscilloscope/Keysight capability classes and *)
(* Keysight.waveformData.  One Python object (one session) talking to one  *)
(* instrument over a VISA transport.  The program is single-threaded; a    *)
(* state of the model is a point between two transport calls.              *)
(*                                                                         *)
(* Python strings whose characters matter (instrument responses) are       *)
(* tuples of one-character strings; command strings are TLA+ strings.      *)
(* Firmware versions (Python floats) are integers in thousandths.          *)
(***************************************************************************)
EXTENDS Integers, Sequences, FiniteSets, TLC

\* SCPI.ErrorQueue: the size of the instrument's error queue.
ErrorQueue == 30

\* Bound of the model: the deepest call stack (frames of primitives and
\* error-queue drains) the model follows.
MaxStack == 4

\* Bound of the model: the largest number of points a fetch asks for, and
\* the largest index of the first of them.
MaxPoints == 20

\* Bound of the model: the voltmeter answers with a reading out of range at
\* most this many times in one call.
MaxOverRange == 1

\* Bound of the model: in Spec the instrument's error queue holds at most
\* this many entries when a drain starts (DrainSpec has no such bound).
MaxNoise == 2

(***************************************************************************)
(* Python string functions, on tuples of characters.                       *)
(***************************************************************************)
Digits == {"0", "1", "2", "3", "4", "5", "6", "7", "8", "9"}

Whitespace == {" ", "\n", "\t", "\r"}

Min(a, b) == IF a < b THEN a ELSE b

\* str.rstrip(chars): with an empty chars nothing is stripped.
RECURSIVE RStrip(_, _)
RStrip(s, chars) ==
    IF s # <<>> /\ s[Len(s)] \in chars
    THEN RStrip(SubSeq(s, 1, Len(s) - 1), chars)
    ELSE s

RECURSIVE LStrip(_, _)
LStrip(s, chars) ==
    IF s # <<>> /\ s[1] \in chars
    THEN LStrip(SubSeq(s, 2, Len(s)), chars)
    ELSE s

\* str.strip(): leading and trailing whitespace removed.
Strip(s) == LStrip(RStrip(s, Whitespace), Whitespace)

\* str.isdigit(): non-empty and every character a digit.
IsDigit(s) == s # <<>> /\ \A i \in 1..Len(s) : s[i] \in Digits

\* str.find(sub, start, end): the lowest 0-based index i with
\* start <= i, i + len(sub) <= min(end, len(s)) and s[i:i+len(sub)] = sub,
\* or -1.
Find(s, sub, start, end) ==
    LET stop == Min(end, Len(s))
        hits == {i \in start..(stop - Len(sub)) :
                    SubSeq(s, i + 1, i + Len(sub)) = sub}
    IN  IF hits = {} THEN -1
        ELSE CHOOSE i \in hits : \A j \in hits : i <= j

\* str.split(sep) for a one-character separator.
RECURSIVE Split(_, _)
Split(s, sep) ==
    LET cuts == {i \in 1..Len(s) : s[i] = sep}
    IN  IF cuts = {} THEN <<s>>
        ELSE LET c == CHOOSE i \in cuts : \A j \in cuts : i <= j
             IN  <<SubSeq(s, 1, c - 1)>> \o Split(SubSeq(s, c + 1, Len(s)), sep)

\* str.replace('\n', '').
RECURSIVE DropNewlines(_)
DropNewlines(s) ==
    IF s = <<>> THEN <<>>
    ELSE (IF s[1] = "\n" THEN <<>> ELSE <<s[1]>>) \o DropNewlines(Tail(s))

\* int() of a string of digits.
RECURSIVE IntOf(_)
IntOf(s) ==
    IF s = <<>> THEN 0
    ELSE 10 * IntOf(SubSeq(s, 1, Len(s) - 1))
         + (CHOOSE d \in 0..9 : <<"0","1","2","3","4","5","6","7","8","9">>[d + 1] = s[Len(s)])

\* The fraction .s in thousandths (the model keeps three decimals, which is
\* exact for 2.99, 9.999 and the firmware versions of the model).
Thousandths(s) ==
    LET p == SubSeq(s \o <<"0", "0", "0">>, 1, 3)
    IN  IntOf(p)

\* float(a + '.' + b) succeeds for digit strings a, b that are not both empty
\* (signs, exponents and underscores do not occur in the firmware strings of
\* the model).
FloatOK(a, b) ==
    /\ \A i \in 1..Len(a) : a[i] \in Digits
    /\ \A i \in 1..Len(b) : b[i] \in Digits
    /\ ~(a = <<>> /\ b = <<>>)

FloatOf(a, b) == 1000 * IntOf(a) + Thousandths(b)

(***************************************************************************)
(* Versions: a Python float (thousandths) or a tuple of strings.           *)
(***************************************************************************)
FloatV(n) == [t |-> "float", v |-> n, tup |-> <<>>]

TupleV(s) == [t |-> "tuple", v |-> 0, tup |-> s]

\* A variant of the comparison: >= instead of >.
VersionGT_OrEqual(a, b) ==
    IF a.t = "float" /\ b.t = "float" THEN a.v >= b.v
    ELSE IF a.t = "tuple" /\ b.t = "tuple" /\ b.tup = <<>> THEN a.tup # <<>>
    ELSE FALSE

\* self._version > self._versionLegacy.  Two floats compare numerically; a
\* tuple is greater than the empty tuple exactly when it is not empty.  The
\* two fields are always of the same type (see _getID), so the mixed case,
\* a TypeError in Python, does not arise.
VersionGT(a, b) ==
    IF a.t = "float" /\ b.t = "float" THEN a.v > b.v
    ELSE IF a.t = "tuple" /\ b.t = "tuple" /\ b.tup = <<>> THEN a.tup # <<>>
    ELSE FALSE

(***************************************************************************)
(* Python values that are passed as channels: a str, an int, a list, None. *)
(***************************************************************************)
PyStr(s) == [ty |-> "str", s |-> s]

PyInt(s) == [ty |-> "int", s |-> s]

PyList == [ty |-> "list", s |-> ""]

PyNone == [ty |-> "None", s |-> ""]

\* str(x) for the channel numbers of the model.
NumStr == <<"1", "2", "3", "4", "5", "6", "7", "8", "9", "10", "11", "12",
            "13", "14", "15", "16">>

Range(f) == {f[i] : i \in DOMAIN f}

\* '{}'.format(n) for an int n.
RECURSIVE IntStr(_)
IntStr(n) ==
    LET digit == <<"0", "1", "2", "3", "4", "5", "6", "7", "8", "9">>
    IN  IF n < 0 THEN "-" \o IntStr(-n)
        ELSE IF n < 10 THEN digit[n + 1]
        ELSE IntStr(n \div 10) \o digit[(n % 10) + 1]

\* int(a / b) for b # 0: the quotient, truncated towards zero.
TruncDiv(a, b) ==
    LET q == (IF a < 0 THEN -a ELSE a) \div (IF b < 0 THEN -b ELSE b)
    IN  IF (a < 0) = (b < 0) THEN q ELSE -q

\* SCPI.channelStr: 'CHAN{}'.format(int(channel)) when int() accepts the
\* channel (an int or a string of digits); None (and any value int() rejects
\* with TypeError) is returned as it is; a string int() rejects with
\* ValueError is returned by _chanStr, as '{}'.format(channel).
channelStr(channel) ==
    IF channel.ty = "int" \/ (channel.ty = "str" /\ channel.s \in Range(NumStr))
    THEN PyStr("CHAN" \o channel.s)
    ELSE channel

(***************************************************************************)
(* The capability classes (Keysight and its subclasses): what their        *)
(* constructors set.                                                       *)
(***************************************************************************)
Classes == {"Keysight", "MSOX3xx4T", "MXRxx4A"}

\* The UXR classes, whose constructors are in uxr.py: the channel count is
\* the one the class is named after, the generic class has the default of
\* the manufacturer's generic class.
UXRmaxChannel(c) ==
    CASE c = "UXRxxx4A" -> 4
      [] c = "UXRxxx2A" -> 2
      [] OTHER -> 2

UXRClasses == {"UXR", "UXRxxx4A", "UXRxxx2A"}

\* All the classes getBestClass chooses from, and the generic class.
AllClasses ==
    {"Oscilloscope", "Keysight", "DSOX", "MSOX", "DSOX3xx2A", "MSOX3xx2A",
     "DSOX3xx4A", "MSOX3xx4A", "DSOX3xx2T", "MSOX3xx2T", "DSOX3xx4T",
     "MSOX3xx4T", "MXR", "MXRxx8A", "MXRxx4A", "EXR", "EXRxx8A", "EXRxx4A"}
    \cup UXRClasses

\* The maxChannel each class passes up to SCPI.__init__ (self._max_chan):
\* its class attribute or the default of its constructor.
max_chan(c) ==
    CASE c = "Oscilloscope" -> 1
      [] c \in {"Keysight", "DSOX", "MSOX"} -> 2
      [] c \in {"DSOX3xx2A", "MSOX3xx2A", "DSOX3xx2T", "MSOX3xx2T"} -> 2
      [] c \in {"DSOX3xx4A", "MSOX3xx4A", "DSOX3xx4T", "MSOX3xx4T"} -> 4
      [] c \in {"MXR", "MXRxx4A", "EXR", "EXRxx4A"} -> 4
      [] c \in {"MXRxx8A", "EXRxx8A"} -> 8
      [] c \in UXRClasses -> UXRmaxChannel(c)

\* A variant in which no class has digital pods.
IsMSOX_None(c) == FALSE

\* The subclasses of MSOX.
IsMSOX(c) == c \in {"MSOX", "MSOX3xx2A", "MSOX3xx4A", "MSOX3xx2T", "MSOX3xx4T"}

\* The subclasses of MXR (EXR is one).
IsMXR(c) == c \in {"MXR", "MXRxx8A", "MXRxx4A", "EXR", "EXRxx8A", "EXRxx4A"}

\* Oscilloscope.__init__ and Keysight.__init__: the analog channels, as
\* numbers.
chanAnaValidList(c) == [x \in 1..max_chan(c) |-> PyStr(NumStr[x])]

\* A variant of the list that holds the analog channels as numbers.
chanAllValidList_Numbers(c) ==
    chanAnaValidList(c)
    \o (IF IsMSOX(c) THEN [x \in 1..2 |-> PyStr("POD" \o NumStr[x])] ELSE <<>>)

\* Oscilloscope.__init__ builds the list from the analog channels, POD1 and
\* POD2.  Keysight.__init__ builds it anew with channelStr(x) for the analog
\* channels; MSOX.__init__ adds POD1 and POD2; MXR.__init__ adds DIFFx, COMMx,
\* FUNC1..16, HIST, WMEM1..8, BUS1..4, POD1, POD2 and PODALL.
chanAllValidList(c) ==
    IF c = "Oscilloscope"
    THEN chanAnaValidList(c) \o [x \in 1..2 |-> PyStr("POD" \o NumStr[x])]
    ELSE
    [x \in 1..max_chan(c) |-> channelStr(PyInt(NumStr[x]))]
    \o (IF IsMSOX(c) THEN [x \in 1..2 |-> PyStr("POD" \o NumStr[x])] ELSE <<>>)
    \o (IF IsMXR(c)
        THEN [x \in 1..max_chan(c) |-> PyStr("DIFF" \o NumStr[x])]
             \o [x \in 1..max_chan(c) |-> PyStr("COMM" \o NumStr[x])]
             \o [x \in 1..16 |-> PyStr("FUNC" \o NumStr[x])]
             \o <<PyStr("HIST")>>
             \o [x \in 1..8 |-> PyStr("WMEM" \o NumStr[x])]
             \o [x \in 1..4 |-> PyStr("BUS" \o NumStr[x])]
             \o [x \in 1..2 |-> PyStr("POD" \o NumStr[x])]
             \o <<PyStr("PODALL")>>
        ELSE <<>>)

\* The 3000T classes.
Is3000T(c) == c \in {"DSOX3xx2T", "MSOX3xx2T", "DSOX3xx4T", "MSOX3xx4T"}

\* self._versionLegacy as the constructors leave it: 0.0 (SCPI), 2.99
\* (Keysight), 9.999 (the 3000T classes).
versionLegacyOf(c) ==
    IF c = "Oscilloscope" THEN FloatV(0)
    ELSE IF Is3000T(c) THEN FloatV(9999) ELSE FloatV(2990)

\* cmd_prefix and read_strip that Keysight.__init__ passes to SCPI.__init__.
prefix == ":"

read_strip == {"\n"}

(***************************************************************************)
(* The instrument: what it answers to *IDN?.  It does not change.          *)
(***************************************************************************)
Devices == {
    <<"K", "E", "Y", "S", "I", "G", "H", "T", ",", "D", "S", "O", "-", "X",
      " ", "3", "0", "3", "4", "A", ",", "S", "N", "1", ",", "2", ".", "6",
      "5", "\n">>,
    <<"K", "E", "Y", "S", "I", "G", "H", "T", ",", "M", "X", "R", "0", "5",
      "4", "A", ",", "S", "N", "2", ",", "1", "1", ".", "1", "0", "\n">>,
    <<"K", "E", "Y", "S", "I", "G", "H", "T", ",", "U", "X", "R", "0", "1",
      "3", "4", "A", ",", "S", "N", "4", ",", "A", ".", "0", "1", ".", "2",
      "3", "\n">> }

\* What an instrument may answer to an error query: the legacy and the
\* modern "no error" entries, an error entry, a bare code, and nothing.
NoErrorOld == <<"+", "0", ",", "N", "o", " ", "e", "r", "r", "o", "r", "\n">>

NoErrorNew == <<"0", ",", "N", "o", " ", "e", "r", "r", "o", "r", "\n">>

ErrorEntry == <<"-", "1", "1", "3", ",", "U", "n", "d", "e", "f", "\n">>

BareCode == <<"1", "1", "3", "\n">>

ErrorAnswers == {NoErrorOld, NoErrorNew, ErrorEntry, BareCode, <<"\n">>}

\* Any other answer of the instrument (its content is not used here).
SomeAnswer == <<"r", "\n">>

\* Answers to the queries of a measurement and of the voltmeter: the source,
\* whether the voltmeter is enabled, a reading, and the reading 9.9E+37 of
\* a value out of range.
SourceAnswer == <<"C", "H", "A", "N", "1", "\n">>

EnabledAnswers == {<<"1", "\n">>, <<"0", "\n">>}

ReadingAnswer == <<"1", ".", "5", "\n">>

OverRangeAnswer == <<"9", ".", "9", "E", "+", "3", "7", "\n">>

(***************************************************************************)
(* The waveform of the instrument: what it answers to the queries of a     *)
(* waveform fetch.  The numbers of the answers are in plain decimal        *)
(* notation; the floats of the program are integers in thousandths.        *)
(***************************************************************************)
\* The answer to WAVeform:POINts?.
PointsAnswer == <<"2", "\n">>

\* Answers to WAVeform:PREamble? in the modern dialect: 24 fields.  The
\* format codes are 2 (WORD), 1 (BYTE), 0 (ASCii) and 7 (no format); the
\* first two differ in Y increment, Y origin and Y reference.
NewWORD ==
    <<"2", ",", "1", ",", "2", ",", "1", ",", "0", ".", "5", ",", "0", ",",
      "0", ",", "0", ".", "5", ",", "1", ",", "0", ",", "1", ",", "8", ",",
      "0", ",", "8", ",", "0", ",", "\"", "1", " ", "J", "A", "N", "\"",
      ",", "\"", "1", "0", ":", "0", "0", "\"", ",", "\"", "M", "X", "R",
      ":", "S", "N", "2", "\"", ",", "0", ",", "1", "0", "0", ",", "2",
      ",", "1", ",", "0", ",", "0", "\n">>

NewBYTE ==
    <<"1", ",", "1", ",", "2", ",", "1", ",", "0", ".", "5", ",", "0", ",",
      "0", ",", "2", ",", "0", ".", "5", ",", "1", "6", ",", "1", ",", "8",
      ",", "0", ",", "8", ",", "0", ",", "\"", "1", " ", "J", "A", "N",
      "\"", ",", "\"", "1", "0", ":", "0", "0", "\"", ",", "\"", "M", "X",
      "R", ":", "S", "N", "2", "\"", ",", "0", ",", "1", "0", "0", ",",
      "2", ",", "1", ",", "0", ",", "0", "\n">>

NewASCii ==
    <<"0", ",", "1", ",", "2", ",", "1", ",", "0", ".", "5", ",", "0", ",",
      "0", ",", "0", ".", "5", ",", "1", ",", "0", ",", "1", ",", "8", ",",
      "0", ",", "8", ",", "0", ",", "\"", "1", " ", "J", "A", "N", "\"",
      ",", "\"", "1", "0", ":", "0", "0", "\"", ",", "\"", "M", "X", "R",
      ":", "S", "N", "2", "\"", ",", "0", ",", "1", "0", "0", ",", "2",
      ",", "1", ",", "0", ",", "0", "\n">>

NewCode7 ==
    <<"7", ",", "1", ",", "2", ",", "1", ",", "0", ".", "5", ",", "0", ",",
      "0", ",", "0", ".", "5", ",", "1", ",", "0", ",", "1", ",", "8", ",",
      "0", ",", "8", ",", "0", ",", "\"", "1", " ", "J", "A", "N", "\"",
      ",", "\"", "1", "0", ":", "0", "0", "\"", ",", "\"", "M", "X", "R",
      ":", "S", "N", "2", "\"", ",", "0", ",", "1", "0", "0", ",", "2",
      ",", "1", ",", "0", ",", "0", "\n">>

NewPreambles == {NewWORD, NewBYTE, NewASCii, NewCode7}

\* Answers to WAVeform:PREamble? in the legacy dialect, as
\* query_ascii_values returns them: 10 floats.  The format codes are 0
\* (BYTE), 1 (WORD) and 2 (no format).
LegacyBYTE == <<0, 0, 2000, 1000, 500, 0, 0, 500, 1000, 128000>>

LegacyWORD == <<1000, 0, 2000, 1000, 500, 0, 0, 2000, 500, 100000>>

LegacyCode2 == <<2000, 0, 2000, 1000, 500, 0, 0, 500, 1000, 128000>>

LegacyPreambles == {LegacyBYTE, LegacyWORD, LegacyCode2}

\* The data queries of the model, and the blocks of bytes the instrument
\* answers them with.
DataQueries ==
    {":WAVeform:DATA?"}
    \cup {":WAVeform:DATA? " \o IntStr(start) \o "," \o IntStr(n) :
             start \in -MaxPoints..MaxPoints, n \in 1..MaxPoints}

DataBlocks == {<<177, 3>>, <<16, 0>>}

\* The waveforms of the instrument of the session model: the preambles and
\* the blocks above.
FewWaves ==
    [new |-> NewPreambles, legacy |-> LegacyPreambles, blocks |-> DataBlocks]

VARIABLES
    cls,            \* the class of the object
    resource,       \* self._resource
    wait,           \* self._wait (in milliseconds)
    dev,            \* the instrument's answer to *IDN?
    inst,           \* self._inst: "None", "Open" or "Closed" (a closed handle)
    IDNmanu,        \* self._IDNmanu
    IDNmodel,       \* self._IDNmodel
    IDNserial,      \* self._IDNserial
    version,        \* self._version
    versionLegacy,  \* self._versionLegacy
    legacyError,    \* self._legacyError
    curr_chan,      \* self._curr_chan
    stack,          \* the calls in progress below the operation (innermost last)
    op,             \* the operation in progress, or Idle
    result,         \* how the last operation ended: "none" while one runs
    returned,       \* what the last operation returned: None, or the tuple of waveformData
    trail,          \* the transport calls the operation in progress (or the last one) made itself and the drains entered, in order; the error queries of a drain are counted in its frame
    printed,        \* the lines the last step printed
    proc,           \* "running", or "exited" after exit(1)
    called,         \* the operation the application called last, with its arguments
    noise,          \* the instrument: how many answers to the error queries of one drain can be other than "no error"
    waves,          \* the instrument: the preambles and the blocks it answers the queries of a waveform fetch with
    host            \* the host the program runs on: its C data model

vars == <<cls, resource, wait, dev, inst, IDNmanu, IDNmodel, IDNserial, version, versionLegacy,
          legacyError, curr_chan, stack, op, result, returned, trail, printed,
          proc, called, noise, waves, host>>

Idle == [name |-> "idle"]

\* The mutable part of the state as one record, and its assignment.
Cur ==
    [inst |-> inst, IDNmanu |-> IDNmanu, IDNmodel |-> IDNmodel,
     IDNserial |-> IDNserial, version |-> version,
     versionLegacy |-> versionLegacy, legacyError |-> legacyError,
     curr_chan |-> curr_chan, stack |-> stack, op |-> op, result |-> result,
     returned |-> returned,
     trail |-> trail, printed |-> <<>>, proc |-> proc, called |-> called]

Assign(m) ==
    /\ inst' = m.inst
    /\ IDNmanu' = m.IDNmanu
    /\ IDNmodel' = m.IDNmodel
    /\ IDNserial' = m.IDNserial
    /\ version' = m.version
    /\ versionLegacy' = m.versionLegacy
    /\ legacyError' = m.legacyError
    /\ curr_chan' = m.curr_chan
    /\ stack' = m.stack
    /\ op' = m.op
    /\ result' = m.result
    /\ returned' = m.returned
    /\ trail' = m.trail
    /\ printed' = m.printed
    /\ proc' = m.proc
    /\ called' = m.called

\* A step of the object: its class and its constructor arguments stay.
Become(m) ==
    Assign(m) /\ UNCHANGED <<cls, resource, wait, dev, noise, waves, host>>

\* SCPI.__init__: what it sets whatever its arguments are.
Fresh ==
    /\ inst = "None"
    /\ IDNmanu = <<>>
    /\ IDNmodel = <<>>
    /\ IDNserial = <<>>
    /\ version = FloatV(0)
    /\ legacyError = TRUE
    /\ curr_chan = PyInt("1")
    /\ stack = <<>>
    /\ op = Idle
    /\ result = "none"
    /\ returned = PyNone
    /\ trail = <<>>
    /\ printed = <<>>
    /\ proc = "running"
    /\ called = [name |-> "none"]

\* The hosts: the size in bytes of a C long (struct's native 'l') is 8 on
\* Linux and macOS (LP64) and 4 on Windows (LLP64).
Hosts == {"LP64", "LLP64"}

calcsize_l(h) == IF h = "LP64" THEN 8 ELSE 4

\* The preambles of the modern dialect an instrument with an acquisition of 16
\* points answers: by format code (1 BYTE, 2 WORD, 3 LONG, 4 LONGLONG,
\* 5 FLOat) and acquire type (1 RAW, 3 VHIStogram, 9 DIGITAL).  The fields
\* are: format, type, points, count, X increment, X origin, X reference,
\* Y increment, Y origin, Y reference, coupling, X display range, X display
\* origin, Y display range, Y display origin, date, time, frame, acquire
\* mode, completion, X units, Y units, and the two bandwidth limits.
AnalogBYTE ==
    <<"1", ",", "1", ",", "1", "6", ",", "1", ",", "0", ".", "0", "0",
      "1", ",", "0", ",", "0", ",", "2", ",", "0", ".", "5", ",", "1",
      "6", ",", "1", ",", "0", ".", "0", "1", "6", ",", "0", ",", "8",
      ",", "0", ",", "\"", "1", " ", "J", "A", "N", "\"", ",", "\"",
      "1", "0", ":", "0", "0", "\"", ",", "\"", "M", "X", "R", ":", "S",
      "N", "2", "\"", ",", "0", ",", "1", "0", "0", ",", "2", ",", "1",
      ",", "0", ",", "0", "\n">>

AnalogWORD ==
    <<"2", ",", "1", ",", "1", "6", ",", "1", ",", "0", ".", "5", ",",
      "-", "1", ",", "2", ",", "0", ".", "5", ",", "1", ",", "0", ",",
      "1", ",", "8", ",", "0", ",", "8", ",", "0", ",", "\"", "1", " ",
      "J", "A", "N", "\"", ",", "\"", "1", "0", ":", "0", "0", "\"",
      ",", "\"", "M", "X", "R", ":", "S", "N", "2", "\"", ",", "0", ",",
      "1", "0", "0", ",", "2", ",", "1", ",", "0", ",", "0", "\n">>

DigitalBYTE ==
    <<"1", ",", "9", ",", "1", "6", ",", "1", ",", "0", ".", "5", ",",
      "0", ",", "0", ",", "1", ",", "0", ",", "0", ",", "1", ",", "8",
      ",", "0", ",", "8", ",", "0", ",", "\"", "1", " ", "J", "A", "N",
      "\"", ",", "\"", "1", "0", ":", "0", "0", "\"", ",", "\"", "M",
      "X", "R", ":", "S", "N", "2", "\"", ",", "0", ",", "1", "0", "0",
      ",", "2", ",", "1", ",", "0", ",", "0", "\n">>

DigitalWORD ==
    <<"2", ",", "9", ",", "1", "6", ",", "1", ",", "0", ".", "5", ",",
      "0", ",", "0", ",", "1", ",", "0", ",", "0", ",", "1", ",", "8",
      ",", "0", ",", "8", ",", "0", ",", "\"", "1", " ", "J", "A", "N",
      "\"", ",", "\"", "1", "0", ":", "0", "0", "\"", ",", "\"", "M",
      "X", "R", ":", "S", "N", "2", "\"", ",", "0", ",", "1", "0", "0",
      ",", "2", ",", "1", ",", "0", ",", "0", "\n">>

AnalogLONG ==
    <<"3", ",", "1", ",", "1", "6", ",", "1", ",", "0", ".", "5", ",",
      "0", ",", "0", ",", "0", ".", "0", "0", "1", ",", "0", ",", "0",
      ",", "1", ",", "8", ",", "0", ",", "8", ",", "0", ",", "\"", "1",
      " ", "J", "A", "N", "\"", ",", "\"", "1", "0", ":", "0", "0",
      "\"", ",", "\"", "M", "X", "R", ":", "S", "N", "2", "\"", ",",
      "0", ",", "1", "0", "0", ",", "2", ",", "1", ",", "0", ",", "0",
      "\n">>

HistLONGLONG ==
    <<"4", ",", "3", ",", "1", "6", ",", "1", ",", "0", ".", "5", ",",
      "0", ",", "0", ",", "0", ".", "0", "0", "1", ",", "0", ",", "0",
      ",", "1", ",", "8", ",", "0", ",", "8", ",", "0", ",", "\"", "1",
      " ", "J", "A", "N", "\"", ",", "\"", "1", "0", ":", "0", "0",
      "\"", ",", "\"", "M", "X", "R", ":", "S", "N", "2", "\"", ",",
      "0", ",", "1", "0", "0", ",", "1", ",", "0", ",", "0", ",", "0",
      "\n">>

AnalogFLOat ==
    <<"5", ",", "1", ",", "1", "6", ",", "1", ",", "0", ".", "5", ",",
      "0", ",", "0", ",", "0", ".", "5", ",", "1", ",", "0", ",", "1",
      ",", "8", ",", "0", ",", "8", ",", "0", ",", "\"", "1", " ", "J",
      "A", "N", "\"", ",", "\"", "1", "0", ":", "0", "0", "\"", ",",
      "\"", "M", "X", "R", ":", "S", "N", "2", "\"", ",", "0", ",", "1",
      "0", "0", ",", "2", ",", "1", ",", "0", ",", "0", "\n">>

ManyPreambles ==
    {AnalogBYTE, AnalogWORD, DigitalBYTE, DigitalWORD, AnalogLONG,
     HistLONGLONG, AnalogFLOat}

\* Blocks of 2, 8 and 10 bytes.  The block of 8 bytes holds the floats 1.5
\* and 0.0 in single precision, least significant byte first.
ManyBlocks ==
    {<<177, 3>>,
     <<0, 0, 192, 63, 0, 0, 0, 0>>,
     <<177, 3, 16, 0, 255, 128, 1, 2, 4, 8>>}

\* The waveforms of the instrument of the fetch model.
ManyWaves ==
    [new |-> ManyPreambles, legacy |-> {LegacyBYTE, LegacyWORD},
     blocks |-> ManyBlocks]

\* The instrument and the host of the session model.
Bench == waves = FewWaves /\ host = "LP64"

\* The resource string of the examples, and the default wait.
DefaultResource == "TCPIP0::172.16.2.13::INSTR"

\* SCPI.__init__ followed by the class's own constructor.
Constructed ==
    /\ cls \in Classes
    /\ resource = DefaultResource
    /\ wait = 0
    /\ dev \in Devices
    /\ versionLegacy = versionLegacyOf(cls)
    /\ Fresh
    /\ Bench

\* An instrument with a short error queue.
Init == Constructed /\ noise = MaxNoise

\* An instrument that answers the error queries of a drain in any way (a
\* drain issues at most ErrorQueue of them).
InitDrain == Constructed /\ noise = ErrorQueue

(***************************************************************************)
(* The transport.  An outcome of one transport call: err is "none" (data   *)
(* is the answer), a VisaIOError ("timeout", or "io" for any other status  *)
(* code), or the error Python raises when there is no usable handle.       *)
(***************************************************************************)
Ok(d) == [err |-> "none", data |-> d]

Fail(e) == [err |-> e, data |-> <<>>]

VisaIOErrors == {"timeout", "io"}

methodNew ==
    [cmd |-> "SYSTem:ERRor? STRing",
     noerr |-> [sub |-> <<"0", ",">>, start |-> 0, end |-> 2]]

methodOld ==
    [cmd |-> "SYSTem:ERRor?",
     noerr |-> [sub |-> <<"+", "0", ",">>, start |-> 0, end |-> 3]]

\* The commands of the model that begin with '*'.
StarCommands == {"*IDN?", "*CLS"}

\* if (str[0] != '*'): str = self._prefix + str
Prefixed(str) == IF str \in StarCommands THEN str ELSE prefix \o str

\* What the transport can do with a command: self._inst is None (attribute
\* access fails), a closed handle (pyvisa raises InvalidSession, which is no
\* VisaIOError), or an open handle: a VisaIOError or an answer.
Outcomes(m, str) ==
    IF m.inst = "None" THEN {Fail("AttributeError")}
    ELSE IF m.inst = "Closed" THEN {Fail("InvalidSession")}
    ELSE {Fail(e) : e \in VisaIOErrors}
         \cup (IF str = "*IDN?" THEN {Ok(dev)}
               ELSE IF str = ":WAVeform:POINts?" THEN {Ok(PointsAnswer)}
               ELSE IF str = ":WAVeform:PREamble?"
               THEN {Ok(d) : d \in (IF m.op.legacy THEN waves.legacy
                                    ELSE waves.new)}
               ELSE IF str \in DataQueries THEN {Ok(d) : d \in waves.blocks}
               ELSE IF str \in {":MEASure:SOURce?", ":DVM:SOURce?"}
               THEN {Ok(SourceAnswer)}
               ELSE IF str = ":DVM:ENABle?" THEN {Ok(d) : d \in EnabledAnswers}
               ELSE IF str = ":DVM:CURRent?"
               THEN {Ok(ReadingAnswer)}
                    \cup (IF m.op.reads < MaxOverRange
                          THEN {Ok(OverRangeAnswer)} ELSE {})
               ELSE IF str = ":MEASure:VAVerage? DISPlay"
               THEN {Ok(ReadingAnswer)}
               ELSE {Ok(SomeAnswer)})

\* What the transport can do with the error query of the drain f: any
\* VisaIOError or answer; once the instrument's error queue is empty, "no
\* error" in the form asked.
ErrorOutcomes(f) ==
    IF f.reads < noise
    THEN {Fail(e) : e \in VisaIOErrors} \cup {Ok(d) : d \in ErrorAnswers}
    ELSE {Ok(IF f.cmd = methodNew.cmd THEN NoErrorNew ELSE NoErrorOld)}

(***************************************************************************)
(* The end of an operation.                                                *)
(***************************************************************************)
\* An exception reaches the caller of the operation; exit(1) (SystemExit)
\* ends the process.
Abort(m, exc) ==
    [m EXCEPT !.stack = <<>>, !.op = Idle, !.result = exc,
              !.proc = IF exc = "SystemExit" THEN "exited" ELSE @]

Finish(m) == [m EXCEPT !.op = Idle, !.result = "ok"]

(***************************************************************************)
(* SCPI._getID, after its query returned data.                             *)
(***************************************************************************)
_getID(m, data) ==
    LET idn == Split(data, ",")
        m1 == [m EXCEPT !.IDNmanu = idn[1]]
        m2 == [m1 EXCEPT !.IDNmodel = idn[2]]
        m3 == [m2 EXCEPT !.IDNserial = idn[3]]
    IN  IF Len(idn) < 2 THEN Abort(m1, "IndexError")
        ELSE IF Len(idn) < 3 THEN Abort(m2, "IndexError")
        ELSE IF Len(idn) < 4 THEN Abort(m3, "IndexError")
        ELSE LET ver == Split(idn[4], ".")
             IN  IF Len(ver) >= 2 /\ FloatOK(ver[1], ver[2])
                 THEN [m3 EXCEPT !.version = FloatV(FloatOf(ver[1], ver[2]))]
                 ELSE [m3 EXCEPT
                         !.version = TupleV([ver EXCEPT ![Len(ver)] = DropNewlines(@)]),
                         !.versionLegacy = TupleV(<<>>)]

(***************************************************************************)
(* The operations, as the calls they make in order.  A step is a call of a *)
(* transport primitive ("call": fn, str, checkErrors) or, in open(), one   *)
(* of the two direct uses of the handle.                                   *)
(***************************************************************************)
CallStep(fn, str, check) ==
    [do |-> "call", fn |-> fn, str |-> str, check |-> check, then |-> ""]

\* sys.byteorder of the host.
HostByteOrder == "little"

StartsWith(c, p) == c.s \in {p \o n : n \in {""} \cup Range(NumStr)} \/ (p = "POD" /\ c.s = "PODALL")

\* A variant of the modern fetch that asks for WORD whatever the source is.
WaveformNewSteps_AlwaysWORD(channel, pts) ==
    << CallStep("_instWrite", "WAVeform:SOURce " \o channelStr(channel).s, TRUE),
       CallStep("_instQuery", "WAVeform:SOURce?", TRUE),
       CallStep("_instQuery", "WAVeform:VIEW?", TRUE),
       CallStep("_instWrite", "WAVeform:FORMat WORD", TRUE),
       CallStep("_instWrite",
                "WAVeform:BYTeorder "
                \o (IF HostByteOrder = "big" THEN "MSBFirst" ELSE "LSBFirst"), TRUE),
       [CallStep("_instQuery", "WAVeform:PREamble?", TRUE)
           EXCEPT !.then = "preamble"],
       CallStep("_instWrite", "WAVeform:STReaming OFF", TRUE),
       [CallStep("_instQueryIEEEBlock", "WAVeform:DATA?" \o pts, TRUE)
           EXCEPT !.then = "decode"] >>

\* Keysight._waveformDataNew: the calls up to the data query.
WaveformNewSteps(channel, pts) ==
    << CallStep("_instWrite", "WAVeform:SOURce " \o channelStr(channel).s, TRUE),
       CallStep("_instQuery", "WAVeform:SOURce?", TRUE),
       CallStep("_instQuery", "WAVeform:VIEW?", TRUE),
       CallStep("_instWrite",
                IF StartsWith(channel, "HIST") THEN "WAVeform:FORMat BINary"
                ELSE IF channel.s \in {"POD1", "POD2"} THEN "WAVeform:FORMat BYTE"
                ELSE "WAVeform:FORMat WORD", TRUE),
       CallStep("_instWrite",
                "WAVeform:BYTeorder "
                \o (IF HostByteOrder = "big" THEN "MSBFirst" ELSE "LSBFirst"), TRUE),
       [CallStep("_instQuery", "WAVeform:PREamble?", TRUE)
           EXCEPT !.then = "preamble"],
       CallStep("_instWrite", "WAVeform:STReaming OFF", TRUE),
       [CallStep("_instQueryIEEEBlock", "WAVeform:DATA?" \o pts, TRUE)
           EXCEPT !.then = "decode"] >>

\* A variant of the legacy fetch that reads the preamble first.
WaveformLegacySteps_PreambleFirst(channel, points) ==
    << [CallStep("_instQueryNumbers", "WAVeform:PREamble?", TRUE)
           EXCEPT !.then = "preamble"],
       CallStep("_instWrite", "WAVeform:SOURce " \o channelStr(channel).s, TRUE),
       CallStep("_instQuery", "WAVeform:SOURce?", TRUE),
       CallStep("_instQuery", "WAVeform:VIEW?", TRUE),
       CallStep("_instWrite", "WAVeform:FORMat BYTE", TRUE),
       CallStep("_instWrite", "WAVeform:UNSigned ON", TRUE),
       CallStep("_instWrite", "WAVeform:POINts:MODE MAX", TRUE),
       CallStep("_instQuery", "WAVeform:POINts:MODE?", TRUE) >>
    \o (IF points # "None"
        THEN <<CallStep("_instWrite", "WAVeform:POINts " \o points, TRUE)>>
        ELSE <<>>)
    \o << [CallStep("_instQuery", "WAVeform:POINts?", TRUE)
              EXCEPT !.then = "int"],
          [CallStep("_instQueryIEEEBlock", "WAVeform:DATA?", TRUE)
              EXCEPT !.then = "decode"] >>

\* Keysight._waveformDataLegacy.
WaveformLegacySteps(channel, points) ==
    << CallStep("_instWrite", "WAVeform:SOURce " \o channelStr(channel).s, TRUE),
       CallStep("_instQuery", "WAVeform:SOURce?", TRUE),
       CallStep("_instQuery", "WAVeform:VIEW?", TRUE),
       CallStep("_instWrite", "WAVeform:FORMat BYTE", TRUE),
       CallStep("_instWrite", "WAVeform:UNSigned ON", TRUE),
       CallStep("_instWrite", "WAVeform:POINts:MODE MAX", TRUE),
       CallStep("_instQuery", "WAVeform:POINts:MODE?", TRUE) >>
    \o (IF points # "None"
        THEN <<CallStep("_instWrite", "WAVeform:POINts " \o points, TRUE)>>
        ELSE <<>>)
    \o << [CallStep("_instQuery", "WAVeform:POINts?", TRUE)
              EXCEPT !.then = "int"],
          [CallStep("_instQueryNumbers", "WAVeform:PREamble?", TRUE)
              EXCEPT !.then = "preamble"],
          [CallStep("_instQueryIEEEBlock", "WAVeform:DATA?", TRUE)
              EXCEPT !.then = "decode"] >>

\* A variant of open() that sends *CLS before it asks for the identity.
OpenSteps_ClearStatusFirst ==
    << [do |-> "open_resource"],
       [do |-> "clear"],
       CallStep("_instWrite", "*CLS", TRUE),
       [CallStep("_instQuery", "*IDN?", FALSE) EXCEPT !.then = "_getID"] >>

\* SCPI.open: the connection, the device clear, _getID() (its query is made
\* with checkErrors=False and its answer parsed), clear().
OpenSteps ==
    << [do |-> "open_resource"],
       [do |-> "clear"],
       [CallStep("_instQuery", "*IDN?", FALSE) EXCEPT !.then = "_getID"],
       CallStep("_instWrite", "*CLS", TRUE) >>

\* Oscilloscope.getBestClass: super().open(), super().close(), and the
\* choice of the class.
GetBestClassSteps == OpenSteps \o << [do |-> "close"], [do |-> "select"] >>

\* Keysight._measure("VAVerage", para="DISPlay"), as measureVoltAverage
\* calls it (install=False): the source is asked, set if it differs, and the
\* measurement queried.
MeasureSteps(o) ==
    << [CallStep("_instQuery", "MEASure:SOURce?", TRUE)
           EXCEPT !.then = "source"] >>
    \o (IF o.switch
        THEN <<CallStep("_instWrite",
                        "MEASure:SOURce " \o channelStr(o.channel).s, TRUE)>>
        ELSE <<>>)
    \o << [CallStep("_instQuery", "MEASure:VAVerage? DISPlay", TRUE)
              EXCEPT !.then = "float"] >>

\* Keysight._readDVM("DC"), as measureDVMdc calls it (timeout=None): the
\* voltmeter is enabled if it is not, its source set if it differs, its mode
\* set, and the reading asked until it is in range.
ReadDVMSteps(o) ==
    << [CallStep("_instQuery", "DVM:ENABle?", TRUE)
           EXCEPT !.then = "enabled"] >>
    \o (IF o.enabled THEN <<>>
        ELSE <<CallStep("_instWrite", "DVM:ENABLE ON", TRUE)>>)
    \o << [CallStep("_instQuery", "DVM:SOURce?", TRUE)
              EXCEPT !.then = "source"] >>
    \o (IF o.switch
        THEN <<CallStep("_instWrite",
                        "DVM:SOURce " \o channelStr(o.channel).s, TRUE)>>
        ELSE <<>>)
    \o << CallStep("_instWrite", "DVM:MODE DC", TRUE),
          [CallStep("_instQuery", "DVM:CURRent?", TRUE)
              EXCEPT !.then = "reading"] >>

\* Keysight.channelLabel(label, channel), with the label 'L'.
ChannelLabelSteps(o) ==
    << CallStep("_instWrite", "CHAN" \o o.channel.s \o ":LABel \"L\"", TRUE),
       CallStep("_instWrite", "DISPlay:LABel ON", TRUE) >>

Script(o) ==
    CASE o.name = "open" -> OpenSteps
      [] o.name = "measureVoltAverage" -> MeasureSteps(o)
      [] o.name = "measureDVMdc" -> ReadDVMSteps(o)
      [] o.name = "channelLabel" -> ChannelLabelSteps(o)
      [] o.name = "getBestClass" -> GetBestClassSteps
      [] o.name = "idn" -> << CallStep("_instQuery", "*IDN?", TRUE) >>
      [] o.name = "setupSave" ->
            << CallStep("_instQueryIEEEBlock", "SYSTem:SETup?", TRUE) >>
      [] o.name = "setupLoad" ->
            << CallStep("_instWriteIEEEBlock", "SYSTem:SETup ", TRUE) >>
      [] o.name = "waveformData" ->
            IF o.legacy THEN WaveformLegacySteps(o.channel, o.points)
            ELSE WaveformNewSteps(o.channel, o.pts)
      [] OTHER -> <<>>

(***************************************************************************)
(* Keysight._waveformDataNew and _waveformDataLegacy: the preamble and the *)
(* decoding of the block.                                                  *)
(***************************************************************************)
\* int(s) succeeds on a string of digits, whitespace around it allowed.
IsInt(s) == IsDigit(Strip(s))

\* float(s) on the plain decimal numbers of the model: digits, or digits
\* with a fraction.
IsFloat(s) ==
    LET f == Split(LStrip(Strip(s), {"-"}), ".")
    IN  /\ Len(LStrip(Strip(s), {"-"})) >= Len(Strip(s)) - 1
        /\ \/ Len(f) = 1 /\ IsDigit(f[1])
           \/ Len(f) = 2 /\ FloatOK(f[1], f[2])

Float(s) ==
    LET t == Strip(s)
        f == Split(LStrip(t, {"-"}), ".")
        v == IF Len(f) = 1 THEN 1000 * IntOf(f[1]) ELSE FloatOf(f[1], f[2])
    IN  IF t[1] = "-" THEN -v ELSE v

\* The keys of the dictionaries of the two dialects.
wav_form_dict_New == 0..5

acq_type_dict_New == {1, 2, 3, 4, 6, 9, 10}

acq_mode_dict == 0..3

coupling_dict == 0..3

units_dict == 0..7

\* A variant of the legacy table that is not closed.
wav_form_dict_Legacy_Open == 0..7

wav_form_dict_Legacy == {0, 1, 4}

acq_type_dict_Legacy == 0..3

\* The preamble of the modern dialect (lines 394-445): the string is split
\* into 24 fields, the codes are looked up for the meta data, and the
\* numbers are converted.
PreambleNew(preamble_string) ==
    LET f == Split(preamble_string, ",")
        Bad(e) == [err |-> e]
    IN  IF Len(f) # 24 THEN Bad("ValueError")
        ELSE IF ~IsInt(f[1]) THEN Bad("ValueError")
        ELSE IF IntOf(Strip(f[1])) \notin wav_form_dict_New THEN Bad("KeyError")
        ELSE IF ~IsInt(f[19]) THEN Bad("ValueError")
        ELSE IF IntOf(Strip(f[19])) \notin acq_mode_dict THEN Bad("KeyError")
        ELSE IF ~IsInt(f[2]) THEN Bad("ValueError")
        ELSE IF IntOf(Strip(f[2])) \notin acq_type_dict_New THEN Bad("KeyError")
        ELSE IF ~IsInt(f[11]) THEN Bad("ValueError")
        ELSE IF IntOf(Strip(f[11])) \notin coupling_dict THEN Bad("KeyError")
        ELSE IF ~IsInt(f[21]) THEN Bad("ValueError")
        ELSE IF IntOf(Strip(f[21])) \notin units_dict THEN Bad("KeyError")
        ELSE IF ~IsInt(f[22]) THEN Bad("ValueError")
        ELSE IF IntOf(Strip(f[22])) \notin units_dict THEN Bad("KeyError")
        ELSE IF \E k \in {5, 6, 7, 8, 9, 10, 12, 13} : ~IsFloat(f[k])
        THEN Bad("ValueError")
        ELSE [err |-> "none",
              wav_form |-> IntOf(Strip(f[1])),
              acq_type |-> IntOf(Strip(f[2])),
              wfmpts |-> f[3],
              x_units |-> IntOf(Strip(f[21])),
              y_units |-> IntOf(Strip(f[22])),
              x_increment |-> Float(f[5]),
              x_origin |-> Float(f[6]),
              x_reference |-> TruncDiv(Float(f[7]), 1000),
              y_increment |-> Float(f[8]),
              y_origin |-> Float(f[9]),
              y_reference |-> TruncDiv(Float(f[10]), 1000),
              x_display_range |-> Float(f[12]),
              x_display_origin |-> Float(f[13])]

\* The preamble of the legacy dialect (lines 641-698): 10 numbers, of which
\* the codes and the references are converted to int.
PreambleLegacy(numbers) ==
    IF Len(numbers) # 10 THEN [err |-> "ValueError"]
    ELSE IF numbers[1] \div 1000 \notin wav_form_dict_Legacy
    THEN [err |-> "KeyError"]
    ELSE IF numbers[2] \div 1000 \notin acq_type_dict_Legacy
    THEN [err |-> "KeyError"]
    ELSE [err |-> "none",
          wav_form |-> numbers[1] \div 1000,
          acq_type |-> numbers[2] \div 1000,
          x_increment |-> numbers[5],
          x_origin |-> numbers[6],
          x_reference |-> TruncDiv(numbers[7], 1000),
          y_increment |-> numbers[8],
          y_origin |-> numbers[9],
          y_reference |-> TruncDiv(numbers[10], 1000)]

\* int(points) of the points argument.
PointsValue(points) == CHOOSE n \in 0..MaxPoints : IntStr(n) = points

WarningLine ==
    [line |-> "   WARNING: Requesting Histogram data with Points. Ignore Points and returning all",
     reads |-> 0, text |-> <<>>, command |-> ""]

RequestedLine(pts) ==
    [line |-> "   As requested only downloading center points",
     reads |-> 0, text |-> <<>>, command |-> pts]

\* A variant of the window that begins at the midpoint.
Window_FromMidpoint(channel, points, p) ==
    IF points = "None" \/ StartsWith(channel, "HIST")
    THEN [err |-> "none", start |-> 0, pts |-> "", print |-> <<>>]
    ELSE LET midpt == TruncDiv(p.x_display_range + (2 * p.x_display_origin)
                                   - (2 * p.x_origin), 2 * p.x_increment)
             pts == " " \o IntStr(midpt) \o "," \o points
         IN  [err |-> "none", start |-> midpt, pts |-> pts,
              print |-> <<RequestedLine(pts)>>]

\* Lines 446-457: the window of the data query.  Without points, and for a
\* histogram, there is none; otherwise it is the points around the middle of
\* the display: midpt = int((((x_display_range / 2) + x_display_origin)
\* - x_origin) / x_increment), computed here on the doubled numerator and
\* denominator (exact quotients; the floats of the program round).
Window(channel, points, p) ==
    IF points = "None"
    THEN [err |-> "none", start |-> 0, pts |-> "", print |-> <<>>]
    ELSE IF StartsWith(channel, "HIST")
    THEN [err |-> "none", start |-> 0, pts |-> "", print |-> <<WarningLine>>]
    ELSE IF p.x_increment = 0
    THEN [err |-> "ZeroDivisionError", start |-> 0, pts |-> "", print |-> <<>>]
    ELSE LET midpt == TruncDiv(p.x_display_range + (2 * p.x_display_origin)
                                   - (2 * p.x_origin), 2 * p.x_increment)
             start == midpt - (PointsValue(points) \div 2)
             pts == " " \o IntStr(start) \o "," \o points
         IN  [err |-> "none", start |-> start, pts |-> pts,
              print |-> <<RequestedLine(pts)>>]

\* struct.unpack of the block in elements of size bytes each, signed, in the
\* byte order of the host.  The value of an element whose most significant
\* byte is 128 or more is -(the value of the complemented bytes + 1).
RECURSIVE Element(_, _)
Element(bytes, order) ==
    IF bytes = <<>> THEN 0
    ELSE IF order = "little" THEN bytes[1] + 256 * Element(Tail(bytes), order)
    ELSE bytes[Len(bytes)]
         + 256 * Element(SubSeq(bytes, 1, Len(bytes) - 1), order)

Signed(bytes, order) ==
    LET msb == IF order = "little" THEN bytes[Len(bytes)] ELSE bytes[1]
    IN  IF msb >= 128
        THEN -(Element([i \in DOMAIN bytes |-> 255 - bytes[i]], order) + 1)
        ELSE Element(bytes, order)

Unpack(sData, size) ==
    [i \in 1..(Len(sData) \div size) |->
        Signed(SubSeq(sData, (i - 1) * size + 1, i * size), HostByteOrder)]

\* struct.unpack of a single-precision float, in thousandths: sign, exponent
\* and the 11 leading bits of the significand.  A zero exponent (zero, or a
\* denormal) gives 0; infinities and NaN are not in the blocks of the model.
Float32(bytes, order) ==
    LET b == IF order = "little" THEN bytes
             ELSE [i \in 1..4 |-> bytes[5 - i]]
        sign == b[4] \div 128
        e == ((b[4] % 128) * 2) + (b[3] \div 128)
        m11 == (8388608 + ((b[3] % 128) * 65536) + (b[2] * 256) + b[1]) \div 8192
        v == IF e = 0 THEN 0
             ELSE IF e >= 127 THEN (m11 * 1000 * (2 ^ (e - 127))) \div 1024
             ELSE (m11 * 1000) \div (1024 * (2 ^ (127 - e)))
    IN  IF sign = 1 THEN -v ELSE v

UnpackFloats(sData) ==
    [i \in 1..(Len(sData) \div 4) |->
        Float32(SubSeq(sData, (i - 1) * 4 + 1, i * 4), HostByteOrder)]

\* (values >> ch) & 1.
Bit(v, ch) == (v \div (2 ^ ch)) % 2

\* y[ch] = (values >> ch) & 1 for ch in range(bits).
Lanes(values, bits) ==
    [ch \in 1..bits |-> [i \in 1..Len(values) |-> Bit(values[i], ch - 1)]]

\* y = ((values - y_reference) * y_increment) + y_origin, in thousandths.
Scaled(values, p) ==
    [i \in 1..Len(values) |->
        ((values[i] - p.y_reference) * p.y_increment) + p.y_origin]

\* A variant of the axis that does not begin at the window.
XAxis_NoStart(n, p, start) ==
    [i \in 1..n |-> (((i - 1) - p.x_reference) * p.x_increment) + p.x_origin]

\* x = ((np.arange(nLength) - x_reference + start) * x_increment) + x_origin,
\* in thousandths.
XAxis(n, p, start) ==
    [i \in 1..n |->
        (((i - 1) - p.x_reference + start) * p.x_increment) + p.x_origin]

\* ['Time (s)'] + ['D{}'.format((pod-1) * bits + ch) for ch in range(bits)]
PodHeader(pod, bits) ==
    <<"Time (s)">> \o [ch \in 1..bits |-> "D" \o IntStr((pod - 1) * bits + (ch - 1))]

\* units_axis_dict and units_abbrev_dict, by the code + 1.
units_axis_dict ==
    <<"UNKNOWN", "Voltage", "Time", "CONSTANT", "Current", "Decibels",
      "Frequency", "Power">>

units_abbrev_dict == <<"?", "V", "s", "CONST.", "A", "dB", "Hz", "W">>

UnitsHeader(units) ==
    units_axis_dict[units + 1] \o " (" \o units_abbrev_dict[units + 1] \o ")"

\* struct.calcsize of one element of the unpack string of the format code,
\* in native mode ('@'): b, h, l, q, f.
NativeSize(wav_form, h) ==
    CASE wav_form = 1 -> 1
      [] wav_form = 2 -> 2
      [] wav_form = 3 -> calcsize_l(h)
      [] wav_form = 4 -> 8
      [] wav_form = 5 -> 4
      [] OTHER -> 0

\* Lines 472-577: the width of the elements by the format code of the
\* preamble p, the elements, the horizontal and the vertical values and the
\* header.  The number of elements asked of struct.unpack is
\* len(sData)//(bits//8); the block has to have the size of that many
\* elements.
DecodeNew(channel, p, start, sData) ==
    LET bits == CASE p.wav_form = 1 -> 8
                  [] p.wav_form = 2 -> 16
                  [] p.wav_form = 3 -> 32
                  [] p.wav_form = 4 -> 64
                  [] p.wav_form = 5 -> 32
                  [] OTHER -> 0
        count == Len(sData) \div (bits \div 8)
        size == NativeSize(p.wav_form, host)
        values == IF p.wav_form = 5 THEN UnpackFloats(sData)
                  ELSE Unpack(sData, size)
        n == Len(values)
        pod == IF channel.s = "PODALL" THEN 1
               ELSE CHOOSE k \in 1..16 : channel.s = "POD" \o NumStr[k]
        Bad(e) == [err |-> e, x |-> <<>>, y |-> <<>>, header |-> <<>>, n |-> 0]
        Good(y, header) ==
            [err |-> "none", x |-> XAxis(n, p, start), y |-> y,
             header |-> header, n |-> n]
    IN  IF bits = 0 THEN Bad("RuntimeError")
        ELSE IF Len(sData) # count * size THEN Bad("struct.error")
        ELSE IF p.acq_type = 9
        THEN IF StartsWith(channel, "BUS")
             THEN Good(values, <<"Time (s)", "BUS Values">>)
             ELSE IF StartsWith(channel, "POD")
             THEN IF p.wav_form = 5 THEN Bad("TypeError")
                  ELSE Good(Lanes(values, bits), PodHeader(pod, bits))
             ELSE Bad("UnboundLocalError")
        ELSE Good(IF p.wav_form = 5 THEN values ELSE Scaled(values, p),
                  <<UnitsHeader(p.x_units), UnitsHeader(p.y_units)>>)

\* Lines 703-760: the block is unpacked as unsigned bytes whatever the
\* format code; pod = int(channel[-1]) fails for PODALL.
DecodeLegacy(channel, p, sData) ==
    LET values == sData
        n == Len(values)
        bits == IF p.wav_form = 1 THEN 16 ELSE 8
        Good(y, header) ==
            [err |-> "none", x |-> XAxis(n, p, 0), y |-> y,
             header |-> header, n |-> n]
    IN  IF StartsWith(channel, "BUS")
        THEN Good(values, <<"Time (s)", "BUS Values">>)
        ELSE IF StartsWith(channel, "POD")
        THEN IF channel.s = "PODALL"
             THEN [err |-> "ValueError", x |-> <<>>, y |-> <<>>,
                   header |-> <<>>, n |-> 0]
             ELSE Good(Lanes(values, bits),
                       PodHeader(CHOOSE k \in 1..16 : channel.s = "POD" \o NumStr[k],
                                 bits))
        ELSE Good(Scaled(values, p), <<"Time (s)", "Voltage (V)">>)

\* SCPI._chanNumber: int(str[4]) if str[:4] == 'CHAN', else 0.
_chanNumber(str) ==
    IF Len(str) >= 4 /\ SubSeq(str, 1, 4) = <<"C", "H", "A", "N">>
    THEN IF Len(str) < 5 THEN [err |-> "IndexError", v |-> PyNone]
         ELSE IF str[5] \notin Digits THEN [err |-> "ValueError", v |-> PyNone]
         ELSE [err |-> "none", v |-> PyInt(str[5])]
    ELSE [err |-> "none", v |-> PyInt("0")]

\* SCPI._1OR0: True if str[:1] == '1'.
_1OR0(str) == str # <<>> /\ str[1] = "1"

\* The operation goes on after step o.pc: it is over after its last step.
NextStep(m) ==
    IF m.op.pc = Len(Script(m.op)) THEN Finish(m)
    ELSE [m EXCEPT !.op.pc = @ + 1]

\* What the operation does with the outcome of the call it made: an
\* exception ends it; the answer to open()'s *IDN? is parsed by _getID.
OpResume(m, res) ==
    LET then == Script(m.op)[m.op.pc].then
        GotID(g) == IF g.op = Idle THEN g ELSE NextStep(g)
        GotSource(n) ==
            IF n.err # "none" THEN Abort(m, n.err)
            ELSE NextStep([m EXCEPT !.op.switch = (n.v # m.curr_chan)])
        GotWindow(heard, p, w) ==
            IF w.err # "none" THEN Abort(heard, w.err)
            ELSE NextStep([heard EXCEPT !.op.preamble = p,
                                        !.op.start = w.start,
                                        !.op.pts = w.pts,
                                        !.printed = @ \o w.print])
        GotPreamble(heard, p) ==
            IF p.err # "none" THEN Abort(heard, p.err)
            ELSE GotWindow(heard, p,
                           IF m.op.legacy
                           THEN [err |-> "none", start |-> 0, pts |-> "",
                                 print |-> <<>>]
                           ELSE Window(m.op.channel, m.op.points, p))
        GotBlock(heard, d) ==
            IF d.err # "none" THEN Abort(heard, d.err)
            ELSE Finish([heard EXCEPT !.returned =
                            [ty |-> "tuple", x |-> d.x, y |-> d.y,
                             header |-> d.header, n |-> d.n]])
    IN  IF res.err # "none" THEN Abort(m, res.err)
        ELSE IF then = "_getID" THEN GotID(_getID(m, res.data))
        ELSE IF then = "int"
        THEN IF IsInt(res.data) THEN NextStep(m) ELSE Abort(m, "ValueError")
        ELSE IF then = "source" THEN GotSource(_chanNumber(res.data))
        ELSE IF then = "enabled"
        THEN NextStep([m EXCEPT !.op.enabled = _1OR0(res.data)])
        ELSE IF then = "float"
        THEN IF IsFloat(res.data)
             THEN Finish([m EXCEPT !.returned =
                             [ty |-> "float", v |-> Float(res.data)]])
             ELSE Abort(m, "ValueError")
        ELSE IF then = "reading"
        THEN IF Strip(res.data) = Strip(OverRangeAnswer)
             THEN [m EXCEPT !.op.reads = @ + 1]
             ELSE IF IsFloat(res.data)
             THEN Finish([m EXCEPT !.returned =
                             [ty |-> "float", v |-> Float(res.data)]])
             ELSE Abort(m, "ValueError")
        ELSE IF then = "preamble"
        THEN GotPreamble([m EXCEPT !.called.preamble = res.data],
                         IF m.op.legacy THEN PreambleLegacy(res.data)
                         ELSE PreambleNew(res.data))
        ELSE IF then = "decode"
        THEN GotBlock([m EXCEPT !.called.block = res.data],
                      IF m.op.legacy
                      THEN DecodeLegacy(m.op.channel, m.op.preamble, res.data)
                      ELSE DecodeNew(m.op.channel, m.op.preamble,
                                     m.op.start, res.data))
        ELSE NextStep(m)

(***************************************************************************)
(* SCPI.checkInstErrors.                                                   *)
(***************************************************************************)
\* Lines 249-259: the command and the "no error" pattern are chosen and the
\* loop starts.  The frame of the drain holds its locals and, for the
\* properties, what it has asked and seen so far: queries (the error queries
\* issued), seen (the kinds of answers, see Observe) and last (the last
\* query and its answer).
checkInstErrors(m, commandStr) ==
    LET new == ~m.legacyError /\ VersionGT(m.version, m.versionLegacy)
        method == IF new THEN methodNew ELSE methodOld
        frame == [fn |-> "checkInstErrors", commandStr |-> commandStr,
                  cmd |-> method.cmd, noerr |-> method.noerr,
                  errors |-> FALSE, reads |-> 0, pc |-> "loop",
                  queries |-> 0, seen |-> {},
                  last |-> [cmd |-> "", kind |-> "none", data |-> <<>>]]
    IN  [m EXCEPT !.legacyError = IF new THEN @ ELSE TRUE,
                  !.stack = Append(@, frame),
                  !.trail = Append(@, "checkInstErrors")]

\* A variant of the loop that runs one iteration more: range(0, ErrorQueue + 1).
Continue_OneMore(f) ==
    [f EXCEPT !.reads = @ + 1,
              !.pc = IF f.reads + 1 >= ErrorQueue + 1 THEN "ret" ELSE "loop"]

\* The loop 'for reads in range(0, self.ErrorQueue)' goes to its next
\* iteration, or ends when there is none.  f.reads counts the iterations
\* begun, each of which issued one error query.
Continue(f) ==
    [f EXCEPT !.reads = @ + 1,
              !.pc = IF f.reads + 1 >= ErrorQueue THEN "ret" ELSE "loop"]

Break(f) == [f EXCEPT !.reads = @ + 1, !.pc = "ret"]

ErrorLine(f, error_string) ==
    [line |-> "ERROR", reads |-> f.reads, text |-> error_string,
     command |-> f.commandStr]

NothingLine(f) ==
    [line |-> "ERROR: :SYSTem:ERRor? returned nothing", reads |-> 0,
     text |-> <<>>, command |-> f.commandStr]

UnexpectedLine ==
    [line |-> "Unexpected VisaIOError during checkInstErrors()", reads |-> 0,
     text |-> <<>>, command |-> ""]

ExitedLine ==
    [line |-> "Exited because of VISA IO Error", reads |-> 0, text |-> <<>>,
     command |-> ""]

\* A variant of TimeoutFallback that leaves _legacyError as it is.
TimeoutFallback_KeepsFlag(m, n, f) ==
    [m EXCEPT !.stack[n] = Continue([f EXCEPT !.cmd = methodOld.cmd,
                                              !.noerr = methodOld.noerr])]

\* A variant of TimeoutFallback that also forgets the firmware version.
TimeoutFallback_ForgetsVersion(m, n, f) ==
    [m EXCEPT !.stack[n] = Continue([f EXCEPT !.cmd = methodOld.cmd,
                                              !.noerr = methodOld.noerr]),
              !.legacyError = TRUE,
              !.version = FloatV(0)]

\* Lines 268-276: the modern form of the query timed out; the legacy form is
\* used from the next iteration on.
TimeoutFallback(m, n, f) ==
    [m EXCEPT !.stack[n] = Continue([f EXCEPT !.cmd = methodOld.cmd,
                                              !.noerr = methodOld.noerr]),
              !.legacyError = TRUE]

\* A variant of UnexpectedError that also falls back to the legacy form.
UnexpectedError_FallsBack(m, n, f) ==
    [m EXCEPT !.stack[n] = Break([f EXCEPT !.errors = TRUE]),
              !.printed = Append(@, UnexpectedLine),
              !.legacyError = TRUE]

\* Lines 278-282: any other VisaIOError of the error query.
UnexpectedError(m, n, f) ==
    [m EXCEPT !.stack[n] = Break([f EXCEPT !.errors = TRUE]),
              !.printed = Append(@, UnexpectedLine)]

\* A variant of SwitchToNew that leaves _legacyError as it is.
SwitchToNew_KeepsFlag(m, n, f) ==
    [m EXCEPT !.stack[n] = Continue([f EXCEPT !.cmd = methodNew.cmd,
                                              !.noerr = methodNew.noerr])]

\* Lines 297-301: a purely numeric answer while _legacyError; the modern form
\* is used from the next iteration on.
SwitchToNew(m, n, f) ==
    [m EXCEPT !.stack[n] = Continue([f EXCEPT !.cmd = methodNew.cmd,
                                              !.noerr = methodNew.noerr]),
              !.legacyError = FALSE]

\* A variant of ReportError that does not remember the error.
ReportError_NoFlag(m, n, f, error_string) ==
    [m EXCEPT !.stack[n] = Continue(f),
              !.printed = Append(@, ErrorLine(f, error_string))]

\* A variant of ReportError that leaves the loop.
ReportError_Break(m, n, f, error_string) ==
    [m EXCEPT !.stack[n] = Break([f EXCEPT !.errors = TRUE]),
              !.printed = Append(@, ErrorLine(f, error_string))]

\* Lines 303-304: an error of the instrument is printed and remembered.
ReportError(m, n, f, error_string) ==
    [m EXCEPT !.stack[n] = Continue([f EXCEPT !.errors = TRUE]),
              !.printed = Append(@, ErrorLine(f, error_string))]

\* Lines 309-311: the instrument answered nothing.
ReturnedNothing(m, n, f) ==
    [m EXCEPT !.stack[n] = Break([f EXCEPT !.errors = TRUE]),
              !.printed = Append(@, NothingLine(f))]

\* Lines 262-311: one iteration of the loop, given what its error query
\* returned or raised.  The drain is the top frame of m.stack.
HandleResponse(m, res) ==
    LET n == Len(m.stack)
        f == m.stack[n]
        error_string == Strip(res.data)
    IN  IF res.err \in VisaIOErrors
        THEN IF res.err = "timeout" /\ f.cmd = methodNew.cmd
             THEN TimeoutFallback(m, n, f)
             ELSE UnexpectedError(m, n, f)
        ELSE IF error_string # <<>>
        THEN IF Find(error_string, f.noerr.sub, f.noerr.start, f.noerr.end) = -1
             THEN IF m.legacyError /\ IsDigit(error_string)
                  THEN SwitchToNew(m, n, f)
                  ELSE ReportError(m, n, f, error_string)
             ELSE [m EXCEPT !.stack[n] = Break(f)]
        ELSE ReturnedNothing(m, n, f)

(***************************************************************************)
(* The transport primitives: _instQuery, _instWrite, _instQueryIEEEBlock,  *)
(* _instQueryNumbers, _instWriteIEEEBlock.                                 *)
(***************************************************************************)
\* The primitives that raise the VisaIOError again; the others print and
\* call exit(1).
Reraises(fn) == fn \in {"_instQuery", "_instWrite"}

\* What a call hands to its caller: the caller is the drain on top of the
\* stack (its error query), or the operation.  Only a VisaIOError is caught
\* by the drain; any other exception goes through it.
Deliver(m, res) ==
    IF m.stack = <<>> THEN OpResume(m, res)
    ELSE IF res.err \in VisaIOErrors \cup {"none"} THEN HandleResponse(m, res)
    ELSE Abort(m, res.err)

\* The end of a primitive (the top frame): after a VisaIOError it raises it
\* again, or prints and exits; otherwise it returns the answer (_instQuery:
\* result.rstrip(self._read_strip)).
PrimitiveEnd(m) ==
    LET n == Len(m.stack)
        f == m.stack[n]
        below == [m EXCEPT !.stack = SubSeq(@, 1, n - 1)]
    IN  IF f.out.err \in VisaIOErrors /\ ~Reraises(f.fn)
        THEN Abort([below EXCEPT !.printed = Append(@, ExitedLine)], "SystemExit")
        ELSE Deliver(below,
                     IF f.out.err = "none" /\ f.fn = "_instQuery"
                     THEN Ok(RStrip(f.out.data, read_strip))
                     ELSE f.out)

\* A primitive is called with (str, checkErrors) and the transport call it
\* makes has the outcome out: with checkErrors it enters the drain, after a
\* VisaIOError as well as after an answer; without, it ends at once.  An
\* exception that is no VisaIOError is not caught.
Primitive(m, fn, str, check, out) ==
    LET s == Prefixed(str)
        frame == [fn |-> fn, str |-> s, check |-> check, out |-> out]
        entered == [m EXCEPT !.stack = Append(@, frame),
                            !.trail = IF m.stack = <<>> THEN Append(@, s) ELSE @]
    IN  IF check /\ out.err \in VisaIOErrors \cup {"none"}
        THEN checkInstErrors(entered, s)
        ELSE PrimitiveEnd(entered)

\* A variant in which the error query of the drain is made with checkErrors.
DrainQueryCheckErrors_True == TRUE

\* checkErrors of the error query that the drain issues (line 265).
DrainQueryCheckErrors == FALSE

(***************************************************************************)
(* The actions.  An operation is started by the application when none is   *)
(* in progress; its steps follow.                                          *)
(***************************************************************************)
CanStart == proc = "running" /\ op = Idle /\ stack = <<>>

Started(o, c) ==
[Cur EXCEPT !.op = o, !.result = "none", !.returned = PyNone,
                !.trail = <<>>, !.called = c]

\* The channel and points arguments the application passes.
ChannelArgs ==
    {PyNone, PyList, PyStr("1"), PyStr("CHAN1"), PyStr("POD1"), PyStr("HIST")}

PointsArgs == {"None", "4"}

\* open() is called.
Open ==
    /\ CanStart
    /\ Become(Started([name |-> "open", pc |-> 1], [name |-> "open"]))

\* open(): visa.ResourceManager('@py') and open_resource(); the handle is
\* stored and its timeout set, or the error is raised and self._inst is as
\* it was.
OpenResource ==
    /\ op # Idle /\ stack = <<>>
    /\ Script(op)[op.pc].do = "open_resource"
    /\ \E ok \in BOOLEAN :
        LET m == [Cur EXCEPT !.trail = Append(@, "open_resource")]
        IN  Become(IF ok THEN NextStep([m EXCEPT !.inst = "Open"])
                   ELSE Abort(m, "VisaIOError"))

\* open(): self._inst.clear(); error_nonsupported_operation is ignored, any
\* other VisaIOError is raised.
DeviceClear ==
    /\ op # Idle /\ stack = <<>>
    /\ Script(op)[op.pc].do = "clear"
    /\ \E out \in {"ok", "nonsupported", "timeout", "io"} :
        LET m == [Cur EXCEPT !.trail = Append(@, "clear")]
        IN  Become(IF out \in {"ok", "nonsupported"} THEN NextStep(m)
                   ELSE Abort(m, out))

\* close(): self._inst.close().  Without a handle the attribute access
\* fails; closing a closed handle does nothing.
Close ==
    /\ CanStart
    /\ Become(IF inst = "None"
              THEN Abort(Started(Idle, [name |-> "close"]), "AttributeError")
              ELSE Finish([Started(Idle, [name |-> "close"])
                              EXCEPT !.inst = "Closed", !.trail = <<"close">>]))

\* idn(), setupSave(), setupLoad() are called.
Simple(name) ==
    /\ CanStart
    /\ Become(Started([name |-> name, pc |-> 1], [name |-> name]))

\* A variant of waveformData that validates the channel against the analog
\* channels instead of all the channels.
waveformData_AnalogOnly(channel, points) ==
    LET m == Started(Idle, [name |-> "waveformData", channel |-> channel,
                            points |-> points, preamble |-> <<>>,
                            block |-> <<>>])
        set == IF channel # PyNone /\ channel.ty # "list"
               THEN [m EXCEPT !.curr_chan = channel] ELSE m
    IN  IF set.curr_chan.ty = "list" \/ channel.ty = "list"
        THEN Abort(set, "ValueError")
        ELSE IF set.curr_chan \notin Range(chanAnaValidList(cls))
        THEN Abort(set, "ValueError")
        ELSE [set EXCEPT !.op = [name |-> "waveformData", pc |-> 1,
                                 channel |-> set.curr_chan, points |-> points,
                                 legacy |-> ~VersionGT(set.version, set.versionLegacy),
                                 preamble |-> [err |-> "unread"],
                                 start |-> 0, pts |-> ""]]

\* Keysight.waveformData, up to the choice of the dialect (lines 772-789).
waveformData(channel, points) ==
    LET m == Started(Idle, [name |-> "waveformData", channel |-> channel,
                            points |-> points, preamble |-> <<>>,
                            block |-> <<>>])
        set == IF channel # PyNone /\ channel.ty # "list"
               THEN [m EXCEPT !.curr_chan = channel] ELSE m
    IN  IF set.curr_chan.ty = "list" \/ channel.ty = "list"
        THEN Abort(set, "ValueError")
        ELSE IF set.curr_chan \notin Range(chanAllValidList(cls))
        THEN Abort(set, "ValueError")
        ELSE [set EXCEPT !.op = [name |-> "waveformData", pc |-> 1,
                                 channel |-> set.curr_chan, points |-> points,
                                 legacy |-> ~VersionGT(set.version, set.versionLegacy),
                                 preamble |-> [err |-> "unread"],
                                 start |-> 0, pts |-> ""]]

WaveformData ==
    /\ CanStart
    /\ \E channel \in ChannelArgs, points \in PointsArgs :
        Become(waveformData(channel, points))

\* self._series as the constructors leave it.
series(c) ==
    CASE c = "Oscilloscope" -> "GENERIC"
      [] c = "Keysight" -> "KEYSIGHT"
      [] c = "DSOX" -> "DSOX"
      [] c = "MSOX" -> "MSOX"
      [] c \in {"DSOX3xx2A", "DSOX3xx4A"} -> "DSOX3"
      [] c \in {"MSOX3xx2A", "MSOX3xx4A"} -> "MSOX3"
      [] c \in {"DSOX3xx2T", "DSOX3xx4T"} -> "DSOX3T"
      [] c \in {"MSOX3xx2T", "MSOX3xx4T"} -> "MSOX3T"
      [] c \in {"MXR", "MXRxx8A", "MXRxx4A"} -> "MXR"
      [] c \in {"EXR", "EXRxx8A", "EXRxx4A"} -> "EXR"
      [] OTHER -> "UXR"

\* The beginning of _measure, _readDVM and channelLabel: a channel that is
\* passed in becomes the current channel, and the current channel is then
\* checked against the analog channels (keysight.py:987-998, 829-840,
\* 207-218).  The result has an operation in progress unless the call has
\* failed.
TakeChannel(name, channel, valid) ==
    LET m == Started(Idle, [name |-> name, channel |-> channel])
        set == IF channel # PyNone /\ channel.ty # "list"
               THEN [m EXCEPT !.curr_chan = channel] ELSE m
    IN  IF set.curr_chan.ty = "list" \/ channel.ty = "list"
        THEN Abort(set, "ValueError")
        ELSE IF set.curr_chan \notin Range(valid)
        THEN Abort(set, "ValueError")
        ELSE set

Begin(m, name) ==
    IF m.result # "none" THEN m
    ELSE [m EXCEPT !.op = [name |-> name, pc |-> 1, channel |-> m.curr_chan,
                           switch |-> TRUE, enabled |-> FALSE, reads |-> 0]]

\* The channel arguments of the operations of the oscilloscope model, and
\* the points arguments of its fetches.
ScopeChannelArgs ==
    {PyNone, PyStr("1"), PyStr("CHAN1"), PyStr("POD1"), PyStr("POD2"),
     PyStr("PODALL"), PyStr("BUS1"), PyStr("HIST")}

ScopePointsArgs == {"None", "4", "20"}

\* measureVoltAverage(channel) is called.
MeasureVoltAverage ==
    /\ CanStart
    /\ \E channel \in ScopeChannelArgs :
        Become(Begin(TakeChannel("measureVoltAverage", channel,
                                 chanAnaValidList(cls)),
                     "measureVoltAverage"))

\* measureDVMdc(channel) is called: the generic Keysight class and the UXR
\* classes have no voltmeter.
MeasureDVMdc ==
    /\ CanStart
    /\ \E channel \in ScopeChannelArgs :
        Become(IF series(cls) \in {"KEYSIGHT", "UXR"}
               THEN Abort(Started(Idle, [name |-> "measureDVMdc",
                                         channel |-> channel]), "RuntimeError")
               ELSE Begin(TakeChannel("measureDVMdc", channel,
                                      chanAnaValidList(cls)),
                          "measureDVMdc"))

\* channelLabel('L', channel) is called.
ChannelLabel ==
    /\ CanStart
    /\ \E channel \in ScopeChannelArgs :
        Become(Begin(TakeChannel("channelLabel", channel,
                                 chanAnaValidList(cls)),
                     "channelLabel"))

\* waveformData(channel, points) is called, with any channel and points of
\* the oscilloscope model.
Fetch ==
    /\ CanStart
    /\ \E channel \in ScopeChannelArgs, points \in ScopePointsArgs :
        Become(waveformData(channel, points))

\* The operation makes its next call of a primitive; the transport call in
\* it has one of its outcomes.
Call ==
    /\ op # Idle /\ stack = <<>>
    /\ Script(op)[op.pc].do = "call"
    /\ LET c == Script(op)[op.pc]
       IN  \E out \in Outcomes(Cur, Prefixed(c.str)) :
              Become(Primitive(Cur, c.fn, c.str, c.check, out))

\* The "no error" entry begins with "0," in the modern form of the error
\* query and with "+0," in the legacy form.
Sentinel(cmd) == IF cmd = methodNew.cmd THEN <<"0", ",">> ELSE <<"+", "0", ",">>

\* The kind of an answer to an error query sent as cmd: "fallback" (a
\* timeout of the modern form), "VisaIOError" (any other one), "nothing",
\* "noerror" (the no-error entry of the form asked), "code" (purely numeric,
\* in the legacy form), "entry" (anything else).
Kind(cmd, out) ==
    LET d == Strip(out.data)
    IN  IF out.err = "timeout" /\ cmd = methodNew.cmd THEN "fallback"
        ELSE IF out.err # "none" THEN "VisaIOError"
        ELSE IF d = <<>> THEN "nothing"
        ELSE IF Len(d) >= Len(Sentinel(cmd))
                /\ SubSeq(d, 1, Len(Sentinel(cmd))) = Sentinel(cmd) THEN "noerror"
        ELSE IF cmd = methodOld.cmd /\ d \in Seq(Digits) THEN "code"
        ELSE "entry"

\* The drain at stack[n], which was f and issued one more error query with
\* the outcome out, records it (for the properties only).  A "code" is not
\* recorded in seen.
Observe(m, n, f, out) ==
    IF Len(m.stack) >= n /\ m.stack[n].fn = "checkInstErrors"
    THEN [m EXCEPT !.stack[n].queries = f.queries + 1,
                   !.stack[n].seen = f.seen \cup ({Kind(f.cmd, out)} \ {"code"}),
                   !.stack[n].last = [cmd |-> f.cmd, kind |-> Kind(f.cmd, out),
                                      data |-> Strip(out.data)]]
    ELSE m

\* One iteration of the drain's loop: the error query
\* self._instQuery(cmd, checkErrors=False) and what the loop does with it.
DrainRead ==
    /\ stack # <<>>
    /\ LET f == stack[Len(stack)]
       IN  /\ f.fn = "checkInstErrors" /\ f.pc = "loop"
           /\ \E out \in ErrorOutcomes(f) :
                \E m \in {Primitive(Cur, "_instQuery", f.cmd,
                                    DrainQueryCheckErrors, out)} :
                    /\ Len(m.stack) <= MaxStack
                    /\ Become(Observe(m, Len(stack), f, out))

\* A variant in which the primitive raises when its drain found an error.
DrainReturn_RaisesOnErrors ==
    /\ stack # <<>>
    /\ LET f == stack[Len(stack)]
           below == [Cur EXCEPT !.stack = SubSeq(@, 1, Len(@) - 1)]
       IN  /\ f.fn = "checkInstErrors" /\ f.pc = "ret"
           /\ Become(IF f.errors THEN Abort(below, "InstrumentError")
                     ELSE PrimitiveEnd(below))

\* The drain returns (its result is not used by the primitives) and the
\* primitive that called it ends.
DrainReturn ==
    /\ stack # <<>>
    /\ LET f == stack[Len(stack)]
       IN  /\ f.fn = "checkInstErrors" /\ f.pc = "ret"
           /\ Become(PrimitiveEnd([Cur EXCEPT !.stack = SubSeq(@, 1, Len(@) - 1)]))

(***************************************************************************)
(* Oscilloscope.getBestClass.                                              *)
(***************************************************************************)
Lowercase == <<"a", "b", "c", "d", "e", "f", "g", "h", "i", "j", "k", "l", "m", "n", "o", "p", "q", "r", "s", "t", "u", "v", "w", "x", "y", "z">>

Uppercase == <<"A", "B", "C", "D", "E", "F", "G", "H", "I", "J", "K", "L", "M", "N", "O", "P", "Q", "R", "S", "T", "U", "V", "W", "X", "Y", "Z">>

\* str.upper(), str.startswith() and str.endswith().
upper(s) ==
    [i \in 1..Len(s) |->
        IF \E k \in 1..26 : Lowercase[k] = s[i]
        THEN Uppercase[CHOOSE k \in 1..26 : Lowercase[k] = s[i]]
        ELSE s[i]]

startswith(s, p) == Len(s) >= Len(p) /\ SubSeq(s, 1, Len(p)) = p

endswith(s, p) == Len(s) >= Len(p) /\ SubSeq(s, Len(s) - Len(p) + 1, Len(s)) = p

KEYSIGHT == <<"K", "E", "Y", "S", "I", "G", "H", "T">>

AGILENT == <<"A", "G", "I", "L", "E", "N", "T">>

\* A variant of the choice that does not ask for the 3 of the 3000 series.
BestClass_AnySeries(manu, model) ==
    LET M == upper(model)
    IN  IF startswith(upper(manu), KEYSIGHT) \/ startswith(upper(manu), AGILENT)
        THEN IF startswith(M, <<"M", "X", "R">>)
             THEN IF endswith(M, <<"8", "A">>) THEN "MXRxx8A"
                  ELSE IF endswith(M, <<"4", "A">>) THEN "MXRxx4A"
                  ELSE "MXR"
             ELSE IF startswith(M, <<"E", "X", "R">>)
             THEN IF endswith(M, <<"8", "A">>) THEN "EXRxx8A"
                  ELSE IF endswith(M, <<"4", "A">>) THEN "EXRxx4A"
                  ELSE "EXR"
             ELSE IF startswith(M, <<"U", "X", "R">>)
             THEN IF endswith(M, <<"4", "A">>) \/ endswith(M, <<"4", "A", "P">>) THEN "UXRxxx4A"
                  ELSE IF endswith(M, <<"2", "A">>) \/ endswith(M, <<"2", "A", "P">>) THEN "UXRxxx2A"
                  ELSE "UXR"
             ELSE IF startswith(M, <<"D", "S", "O", "-", "X">>)
             THEN IF endswith(M, <<"4", "A">>) THEN "DSOX3xx4A"
                  ELSE IF endswith(M, <<"2", "A">>) THEN "DSOX3xx2A"
                  ELSE IF endswith(M, <<"4", "T">>) THEN "DSOX3xx4T"
                  ELSE IF endswith(M, <<"2", "T">>) THEN "DSOX3xx2T"
                  ELSE "DSOX"
             ELSE IF startswith(M, <<"M", "S", "O", "-", "X">>)
             THEN IF endswith(M, <<"4", "A">>) THEN "MSOX3xx4A"
                  ELSE IF endswith(M, <<"2", "A">>) THEN "MSOX3xx2A"
                  ELSE IF endswith(M, <<"4", "T">>) THEN "MSOX3xx4T"
                  ELSE IF endswith(M, <<"2", "T">>) THEN "MSOX3xx2T"
                  ELSE "MSOX"
             ELSE "Keysight"
        ELSE "self"

\* Lines 117-239: the class of the object that getBestClass returns, or
\* "self" when it returns the object it was called on.
BestClass(manu, model) ==
    LET M == upper(model)
    IN  IF startswith(upper(manu), KEYSIGHT) \/ startswith(upper(manu), AGILENT)
        THEN IF startswith(M, <<"M", "X", "R">>)
             THEN IF endswith(M, <<"8", "A">>) THEN "MXRxx8A"
                  ELSE IF endswith(M, <<"4", "A">>) THEN "MXRxx4A"
                  ELSE "MXR"
             ELSE IF startswith(M, <<"E", "X", "R">>)
             THEN IF endswith(M, <<"8", "A">>) THEN "EXRxx8A"
                  ELSE IF endswith(M, <<"4", "A">>) THEN "EXRxx4A"
                  ELSE "EXR"
             ELSE IF startswith(M, <<"U", "X", "R">>)
             THEN IF endswith(M, <<"4", "A">>) \/ endswith(M, <<"4", "A", "P">>) THEN "UXRxxx4A"
                  ELSE IF endswith(M, <<"2", "A">>) \/ endswith(M, <<"2", "A", "P">>) THEN "UXRxxx2A"
                  ELSE "UXR"
             ELSE IF startswith(M, <<"D", "S", "O", "-", "X">>)
             THEN IF startswith(M, <<"D", "S", "O", "-", "X", " ", "3">>) /\ endswith(M, <<"4", "A">>) THEN "DSOX3xx4A"
                  ELSE IF startswith(M, <<"D", "S", "O", "-", "X", " ", "3">>) /\ endswith(M, <<"2", "A">>) THEN "DSOX3xx2A"
                  ELSE IF startswith(M, <<"D", "S", "O", "-", "X", " ", "3">>) /\ endswith(M, <<"4", "T">>) THEN "DSOX3xx4T"
                  ELSE IF startswith(M, <<"D", "S", "O", "-", "X", " ", "3">>) /\ endswith(M, <<"2", "T">>) THEN "DSOX3xx2T"
                  ELSE "DSOX"
             ELSE IF startswith(M, <<"M", "S", "O", "-", "X">>)
             THEN IF startswith(M, <<"M", "S", "O", "-", "X", " ", "3">>) /\ endswith(M, <<"4", "A">>) THEN "MSOX3xx4A"
                  ELSE IF startswith(M, <<"M", "S", "O", "-", "X", " ", "3">>) /\ endswith(M, <<"2", "A">>) THEN "MSOX3xx2A"
                  ELSE IF startswith(M, <<"M", "S", "O", "-", "X", " ", "3">>) /\ endswith(M, <<"4", "T">>) THEN "MSOX3xx4T"
                  ELSE IF startswith(M, <<"M", "S", "O", "-", "X", " ", "3">>) /\ endswith(M, <<"2", "T">>) THEN "MSOX3xx2T"
                  ELSE "MSOX"
             ELSE "Keysight"
        ELSE "self"

\* A variant of the constructor call that leaves wait at its default.
ConstructorArgs_DefaultWait(r, w) == [resource |-> r, wait |-> 0]

\* The arguments getBestClass passes to the constructor of the class it
\* chose: (self._resource, wait=self._wait).
ConstructorArgs(r, w) == [resource |-> r, wait |-> w]

\* The constructors of the UXR classes, which are in uxr.py: what they hand
\* to SCPI.__init__ of the resource and the wait they are called with.
UXRInit(args) == [resource |-> args.resource, wait |-> args.wait]

\* A variant of the constructor call after which the new object has the
\* handle, the identity and the version of the object it was made from.
New_KeepsIdentity(c, args, m) ==
    /\ cls' = c
    /\ resource' = args.resource
    /\ wait' = args.wait
    /\ Assign([m EXCEPT !.legacyError = TRUE,
                        !.curr_chan = PyInt("1")])
    /\ UNCHANGED <<dev, noise, waves, host>>

\* The constructor of class c called with args as the last statement of the
\* operation that m has finished: the object is a new one from here on.
New(c, args, m) ==
    /\ cls' = c
    /\ resource' = args.resource
    /\ wait' = args.wait
    /\ Assign([m EXCEPT !.inst = "None",
                        !.IDNmanu = <<>>,
                        !.IDNmodel = <<>>,
                        !.IDNserial = <<>>,
                        !.version = FloatV(0),
                        !.versionLegacy = versionLegacyOf(c),
                        !.legacyError = TRUE,
                        !.curr_chan = PyInt("1")])
    /\ UNCHANGED <<dev, noise, waves, host>>

\* getBestClass() is called.
GetBestClass ==
    /\ CanStart
    /\ Become(Started([name |-> "getBestClass", pc |-> 1],
                      [name |-> "getBestClass", cls |-> cls,
                       resource |-> resource, wait |-> wait]))

\* getBestClass(): superduper.close().
CloseStep ==
    /\ op # Idle /\ stack = <<>>
    /\ Script(op)[op.pc].do = "close"
    /\ Become(NextStep([Cur EXCEPT !.inst = "Closed",
                                   !.trail = Append(@, "close")]))

\* getBestClass(): the object of the class chosen is made and returned, or
\* the object itself.
SelectClass ==
    /\ op # Idle /\ stack = <<>>
    /\ Script(op)[op.pc].do = "select"
    /\ LET best == BestClass(IDNmanu, IDNmodel)
           args == ConstructorArgs(resource, wait)
       IN  IF best = "self" THEN Become(Finish(Cur))
           ELSE IF best \in UXRClasses THEN New(best, UXRInit(args), Finish(Cur))
           ELSE New(best, args, Finish(Cur))

\* Oscilloscope has no waveformData: the call fails.
NoWaveformData ==
    /\ CanStart
    /\ cls = "Oscilloscope"
    /\ Become(Abort(Started(Idle, [name |-> "waveformData", channel |-> PyNone,
                                   points |-> "None"]), "AttributeError"))

\* Keysight.waveformData is called on an object of Keysight or a subclass.
KeysightWaveformData == cls # "Oscilloscope" /\ WaveformData

Next ==
    \/ Open
    \/ OpenResource
    \/ DeviceClear
    \/ Close
    \/ Simple("idn")
    \/ Simple("setupSave")
    \/ Simple("setupLoad")
    \/ WaveformData
    \/ Call
    \/ DrainRead
    \/ DrainReturn

Spec == Init /\ [][Next]_vars

\* The session without waveform downloads, on an instrument that answers
\* error queries in any way.
NextDrain ==
    \/ Open
    \/ OpenResource
    \/ DeviceClear
    \/ Close
    \/ Simple("idn")
    \/ Simple("setupSave")
    \/ Simple("setupLoad")
    \/ Call
    \/ DrainRead
    \/ DrainReturn

DrainSpec == InitDrain /\ [][NextDrain]_vars

\* The oscilloscope model: objects of a class with digital pods and of a
\* class of the MXR family, on either host, opened on instruments of the
\* legacy and of the modern firmware that hold the waveforms ManyWaves and
\* whose error queue is empty.
ScopeClasses == {"MSOX3xx4A", "MXRxx4A"}

InitScope ==
    /\ cls \in ScopeClasses
    /\ resource = DefaultResource
    /\ wait = 0
    /\ dev \in Devices
    /\ versionLegacy = versionLegacyOf(cls)
    /\ Fresh
    /\ waves = ManyWaves
    /\ host \in Hosts
    /\ noise = 0

NextScope ==
    \/ Open
    \/ OpenResource
    \/ DeviceClear
    \/ Fetch
    \/ MeasureVoltAverage
    \/ MeasureDVMdc
    \/ ChannelLabel
    \/ Call
    \/ DrainRead
    \/ DrainReturn

ScopeSpec == InitScope /\ [][NextScope]_vars


(***************************************************************************)
(* The properties.                                                         *)
(***************************************************************************)

\* The drains in progress, and the one that is running.
Drains == {i \in 1..Len(stack) : stack[i].fn = "checkInstErrors"}
Draining == stack # <<>> /\ stack[Len(stack)].fn = "checkInstErrors"
TopDrain == stack[Len(stack)]

\* The channel a call of waveformData is about: its argument, or the current
\* channel when it has none.
AskedChannel == IF called.channel = PyNone THEN curr_chan ELSE called.channel
InvalidChannelAsked ==
    /\ called.name = "waveformData"
    /\ AskedChannel \notin Range(chanAllValidList(cls))

\* C1: a call of waveformData whose channel is not in the list of all valid
\* channels of the object has failed with the validation error (ValueError)
\* and has made no transport call: nothing was sent, no call is in progress.
C1_InvalidChannelRejected ==
    InvalidChannelAsked =>
        /\ result = "ValueError"
        /\ trail = <<>>
        /\ stack = <<>>
        /\ op = Idle

\* C1's case: the session is open, so that a transport call could be made,
\* and waveformData was called with an invalid channel and has failed.
C1_Witness ==
    /\ inst = "Open"
    /\ InvalidChannelAsked
    /\ called.channel = PyStr("1")
    /\ result = "ValueError"

\* The program does not stop in the middle of a drain: the loop goes on to
\* its next error query, whose transport call returns or raises within the
\* timeout of the session, and the drain returns when its loop has ended.
\* This is weak fairness of DrainRead \/ DrainReturn, which is enabled
\* exactly when a drain is running.  The objects are the ones of the class
\* Keysight, whose threshold 2.99 has versions on both its sides.
InitLive == InitDrain /\ cls = "Keysight"

LiveDrainSpec ==
    /\ InitLive
    /\ [][NextDrain]_vars
    /\ ([]<>(~Draining) \/ []<><<DrainRead \/ DrainReturn>>_vars)

\* C2: whatever the instrument answers to the error queries, a drain issues
\* at most ErrorQueue (30) of them, the ones spent on switching the form of
\* the query included, and every drain that has started ends.
C2_DrainTerminates ==
    /\ [](\A i \in Drains : stack[i].queries <= ErrorQueue)
    /\ (Draining ~> ~Draining)

\* C2's case: a drain has issued all its ErrorQueue queries and ended its
\* loop, having switched the form of the query on the way.
C2_Witness ==
    /\ Draining
    /\ TopDrain.pc = "ret"
    /\ TopDrain.queries = ErrorQueue
    /\ "fallback" \in TopDrain.seen

\* A drain whose loop has ended and which is about to return.
DrainEnded == Draining /\ TopDrain.pc = "ret"

\* The line that reports the answer to the last error query of the drain f.
LastReported(f) ==
    [line |-> "ERROR", reads |-> f.queries - 1, text |-> f.last.data,
     command |-> f.commandStr]

\* In this step the running drain has issued one more error query.
DrainHasRead ==
    /\ Draining /\ Draining'
    /\ Len(stack') = Len(stack)
    /\ TopDrain'.queries = TopDrain.queries + 1

\* In this step a drain has started.
DrainHasStarted == ~Draining /\ Draining' /\ TopDrain'.queries = 0

\* C3, as the specification states it: a drain that has never read the
\* "no error" entry has issued exactly ErrorQueue (30) error queries and
\* returns true.
C3_NeverNoErrorReadsAll ==
    (DrainEnded /\ "noerror" \notin TopDrain.seen) =>
        (TopDrain.queries = ErrorQueue /\ TopDrain.errors)

\* C3, amended: a drain none of whose error queries failed (no timeout, no
\* I/O error) and all of whose answers were non-empty and not the "no
\* error" entry of the form asked has issued exactly ErrorQueue (30) error
\* queries and returns true.
C3_AnsweredDrainReadsAll ==
    (DrainEnded /\ TopDrain.seen \subseteq {"entry"}) =>
        (TopDrain.queries = ErrorQueue /\ TopDrain.errors)

\* C3's case: the instrument has answered all the error queries of a drain
\* with errors, and the drain has given up after the last one.
C3_Witness ==
    /\ DrainEnded
    /\ TopDrain.seen = {"entry"}
    /\ TopDrain.last.kind = "entry"
    /\ TopDrain.queries = ErrorQueue
    /\ TopDrain.errors

\* C4, as the specification states it: every answer to an error query that
\* is not empty and not the "no error" entry is reported, with the command
\* that the drain follows, and makes the drain return true.
C4_EveryEntryReported ==
    (Draining /\ TopDrain.last.kind \in {"entry", "code"}) =>
        (printed = <<LastReported(TopDrain)>> /\ TopDrain.errors)

\* C4, amended: every answer to an error query that is not empty and not
\* the "no error" entry of the form asked, except a purely numeric answer
\* to the legacy form (which is not reported: the form is switched and the
\* read repeated), is reported with the command that the drain follows;
\* the drain goes on (nothing is raised) and returns true once such an
\* answer was read.
C4_EntryReportedUnlessBareCode ==
    Draining =>
        /\ TopDrain.last.kind = "entry" =>
              (printed = <<LastReported(TopDrain)>> /\ TopDrain.errors)
        /\ TopDrain.last.kind = "code" => printed = <<>>
        /\ "entry" \in TopDrain.seen => TopDrain.errors

\* C4's case: a purely numeric answer to the modern form of the query has
\* been reported, after an earlier query of the same drain.
C4_Witness ==
    /\ Draining
    /\ TopDrain.last.kind = "entry"
    /\ TopDrain.last.cmd = methodNew.cmd
    /\ TopDrain.last.data \in Seq(Digits)
    /\ TopDrain.queries >= 2
    /\ printed = <<LastReported(TopDrain)>>
    /\ TopDrain.errors

\* C5, as the specification states it: once the modern form of the error
\* query has timed out, the session is in the legacy form and every later
\* error query uses it.
C5_LegacyForeverAfterTimeout ==
    \A i \in Drains :
        "fallback" \in stack[i].seen =>
            (legacyError /\ stack[i].cmd = methodOld.cmd)

\* C5, amended: a timeout of the modern form of the error query puts the
\* session in the legacy form; a drain asks in the legacy form exactly when
\* the session is in it; and the session leaves the legacy form only when a
\* purely numeric answer to the legacy form is read.
C5_LegacyUntilBareCode ==
    /\ [](Draining =>
            /\ TopDrain.last.kind = "fallback" => legacyError
            /\ legacyError <=> TopDrain.cmd = methodOld.cmd)
    /\ [][(legacyError /\ ~legacyError') =>
            (DrainHasRead /\ TopDrain'.last.kind = "code")]_vars

\* C5's case: after a timeout of the modern form, a later error query of the
\* drain was made in the legacy form.
C5_Witness ==
    /\ Draining
    /\ "fallback" \in TopDrain.seen
    /\ TopDrain.last.cmd = methodOld.cmd
    /\ TopDrain.last.kind = "entry"
    /\ legacyError

\* C6, as the specification states it: the switch to the modern form is
\* permanent; a session in the modern form stays in it.
C6_ModernForever == [][~legacyError => ~legacyError']_vars

\* C6, amended: a purely numeric answer to the legacy form puts the session
\* in the modern form, and the next error query of the same drain, if there
\* is one, is made in the modern form; the session then leaves the modern
\* form when the modern form of the query times out, and when a drain
\* starts while the firmware version is not above the legacy threshold.
C6_ModernUntilTimeoutOrLegacyFirmware ==
    /\ [](Draining /\ TopDrain.last.kind = "code" =>
            ~legacyError /\ TopDrain.cmd = methodNew.cmd)
    /\ [][(DrainHasRead /\ TopDrain.last.kind = "code") =>
            TopDrain'.last.cmd = methodNew.cmd]_vars
    /\ [][(~legacyError /\ legacyError') =>
            \/ DrainHasRead /\ TopDrain'.last.kind = "fallback"
            \/ DrainHasStarted /\ ~VersionGT(version, versionLegacy)]_vars

\* C6's case: the firmware version is not above the legacy threshold, and a
\* purely numeric answer to the legacy form has put the session in the
\* modern form, with an iteration of the drain left.
C6_Witness ==
    /\ Draining
    /\ ~VersionGT(version, versionLegacy)
    /\ TopDrain.last.kind = "code"
    /\ TopDrain.pc = "loop"
    /\ ~legacyError

\* C7: a drain never starts another one: at most one drain is in progress,
\* and nothing is called on top of it that is still in progress (its error
\* queries are made without the error check, also when they fail).
C7_NoRecursiveDrain ==
    /\ Cardinality(Drains) <= 1
    /\ Drains \subseteq {Len(stack)}

\* C7's case: an error query of a drain has itself failed, and the drain is
\* the only one.
C7_Witness ==
    /\ Draining
    /\ TopDrain.last.kind \in {"fallback", "VisaIOError"}
    /\ Cardinality(Drains) = 1

\* C8, as the specification states it: a transport error of any primitive
\* reaches the caller of the operation as an error that it can catch; it
\* never ends the process.
C8_TransportErrorSurfaces == proc = "running" /\ result # "SystemExit"

\* C9, as the specification states it: close() on an object without a
\* connection handle (open() was never called, or failed before it had the
\* handle) completes without raising.
C9_CloseWithoutHandleIsSafe ==
    (called.name = "close" /\ inst = "None") => result = "ok"

\* What a successful open() does with the transport, in order; the last is
\* the drain that follows *CLS.
OpenOrder == <<"open_resource", "clear", "*IDN?", "*CLS", "checkInstErrors">>

IsPrefix(s, t) == Len(s) <= Len(t) /\ SubSeq(t, 1, Len(s)) = s

IdentityParsed ==
    /\ IDNmanu # <<>> /\ IDNmodel # <<>> /\ IDNserial # <<>>
    /\ version # FloatV(0)

\* C10: open() makes its calls in the order connection, device clear,
\* *IDN?, *CLS: what it has done so far is always a prefix of that order,
\* and all of it when open() has succeeded; a failure of the device clear
\* (other than its not being supported) has ended open(); and an error
\* query is issued only after *IDN? was answered and the identity and the
\* version parsed (*IDN? itself is followed by no drain).
C10_OpenOrder ==
    called.name = "open" =>
        /\ IsPrefix(trail, OpenOrder)
        /\ result = "ok" => (trail = OpenOrder /\ inst = "Open")
        /\ (op = Idle /\ trail = <<"open_resource", "clear">>) =>
              result \in VisaIOErrors
        /\ Drains # {} => (trail = OpenOrder /\ IdentityParsed)

\* C10's case: open() has succeeded: the identity is parsed and the drain
\* that follows *CLS has returned.
C10_Witness ==
    /\ called.name = "open"
    /\ result = "ok"
    /\ trail = OpenOrder
    /\ IdentityParsed
    /\ inst = "Open"

(***************************************************************************)
(* Firmware versions and the dialect.                                      *)
(***************************************************************************)
\* The answer to *IDN? of an instrument.
Idn(manu, model, serial, ver) ==
    manu \o <<",">> \o model \o <<",">> \o serial \o <<",">> \o ver \o <<"\n">>

Model3034A == <<"D", "S", "O", "-", "X", " ", "3", "0", "3", "4", "A">>

\* Firmware version strings, each with what it is read as by hand: whether
\* it is of the numeric major.minor form and, if so, its value in
\* thousandths.
VersionCases ==
    { [text |-> <<"2", ".", "6", "5">>, numeric |-> TRUE, milli |-> 2650],
      [text |-> <<"2", ".", "9", "9">>, numeric |-> TRUE, milli |-> 2990],
      [text |-> <<"3", ".", "0", "0">>, numeric |-> TRUE, milli |-> 3000],
      [text |-> <<"7", ".", "5", "0", ".", "2", "0", "2", "1">>,
       numeric |-> TRUE, milli |-> 7500],
      [text |-> <<"1", "0", ".", "2">>, numeric |-> TRUE, milli |-> 10200],
      [text |-> <<"1", "1", ".", "1", "0">>, numeric |-> TRUE, milli |-> 11100],
      [text |-> <<"A", ".", "0", "1", ".", "2", "3">>, numeric |-> FALSE,
       milli |-> 0],
      [text |-> <<"7">>, numeric |-> FALSE, milli |-> 0] }

VersionDevices ==
    {Idn(KEYSIGHT, Model3034A, <<"S", "N", "1">>, c.text) : c \in VersionCases}

\* Objects of the classes of the model and instruments with the firmware
\* versions above, whose error queue is empty.
InitVersion ==
    /\ cls \in Classes
    /\ resource = DefaultResource
    /\ wait = 0
    /\ dev \in VersionDevices
    /\ versionLegacy = versionLegacyOf(cls)
    /\ Fresh
    /\ Bench
    /\ noise = 0

VersionSpec == InitVersion /\ [][Next]_vars

\* The dialect that the dialect-dependent operations choose.
Dialect == IF VersionGT(version, versionLegacy) THEN "Modern" ELSE "Legacy"

\* The legacy threshold of the family of the object, in thousandths: 9.999
\* for the 3000T classes, 2.99 for the others.
FamilyThreshold == IF Is3000T(cls) THEN 9999 ELSE 2990

\* The version case of the instrument.
TheCase == CHOOSE c \in VersionCases :
               dev = Idn(KEYSIGHT, Model3034A, <<"S", "N", "1">>, c.text)

\* C11: once the identity is parsed, the dialect is Modern exactly when the
\* firmware version string is not of the numeric major.minor form or its
\* value is greater than the threshold of the family, and Legacy otherwise;
\* a waveform fetch in progress has chosen the dialect accordingly.
C11_DialectByVersion ==
    IDNserial # <<>> =>
        /\ Dialect = "Modern" <=>
              (~TheCase.numeric \/ TheCase.milli > FamilyThreshold)
        /\ op.name = "waveformData" => (op.legacy <=> Dialect = "Legacy")

\* C11's case: a session of a 3000T class is open with firmware 7.50, which
\* is above 2.99 and below 9.999, and is Legacy.
C11_Witness ==
    /\ cls = "MSOX3xx4T"
    /\ inst = "Open"
    /\ called.name = "open" /\ result = "ok"
    /\ version = FloatV(7500)
    /\ Dialect = "Legacy"

(***************************************************************************)
(* The identity of a session.                                              *)
(***************************************************************************)
\* What _getID parses, and the legacy threshold.
Identity == <<IDNmanu, IDNmodel, IDNserial, version, versionLegacy>>

\* C12: the parsed identity, the firmware version and the legacy threshold
\* change only in a step of open(); no step of another operation or of an
\* error drain changes them, and a waveform fetch in progress runs in the
\* dialect that the version and the threshold give.
C12_IdentityFixedAtOpen ==
    /\ [][Identity' # Identity => op.name = "open" /\ stack = <<>>]_vars
    /\ [](op.name = "waveformData" => (op.legacy <=> Dialect = "Legacy"))

\* C12's case: on an open session whose identity is parsed, a waveform fetch
\* has run to its end, with error drains on the way.
C12_Witness ==
    /\ inst = "Open"
    /\ IDNserial # <<>>
    /\ called.name = "waveformData"
    /\ op = Idle
    /\ result = "ok"
    /\ "checkInstErrors" \in Range(trail)

(***************************************************************************)
(* The transitions of the form of the error query.                         *)
(***************************************************************************)
\* In this step a purely numeric answer to the legacy form has been read.
NumericAnswerRead == DrainHasRead /\ TopDrain'.last.kind = "code"

\* In this step the modern form of the error query has timed out.
ModernTimedOut == DrainHasRead /\ TopDrain'.last.kind = "fallback"

\* C13, as the specification states it: the only change of the form of the
\* error query is from Legacy to Modern, on a purely numeric answer.
C13_OnlyLegacyToModern ==
    [][legacyError' # legacyError =>
          (legacyError /\ ~legacyError' /\ NumericAnswerRead)]_vars

\* C13, amended: the form of the error query changes in exactly three ways:
\* from Legacy to Modern on a purely numeric answer to the legacy form, from
\* Modern to Legacy on a timeout of the modern form, and from Modern to
\* Legacy at the start of a drain while the firmware version is not above
\* the legacy threshold.
C13_ErrorFormTransitions ==
    [][legacyError' # legacyError =>
          \/ legacyError /\ ~legacyError' /\ NumericAnswerRead
          \/ ~legacyError /\ legacyError' /\ ModernTimedOut
          \/ /\ ~legacyError /\ legacyError'
             /\ DrainHasStarted
             /\ ~VersionGT(version, versionLegacy)]_vars

\* C13's case: a session with modern firmware, which was in the modern form,
\* is back in the legacy form after a timeout of the modern form.
C13_Witness ==
    /\ Draining
    /\ VersionGT(version, versionLegacy)
    /\ TopDrain.last.kind = "fallback"
    /\ TopDrain.last.cmd = methodNew.cmd
    /\ legacyError

(***************************************************************************)
(* The choice of the class from the identity.                              *)
(***************************************************************************)
SN1 == <<"S", "N", "1">>

\* Identities, each with what is expected of getBestClass, written by hand:
\* class and chans are the class the object returned is of ("Oscilloscope"
\* when the object itself is returned) and its number of analog channels (0
\* where the class is in uxr.py and has no number in its name); family and
\* claimed are the family and the number of channels that the prefix and the
\* suffix of the model stand for.
ResolveCases ==
    {
      [manu |-> <<"K", "E", "Y", "S", "I", "G", "H", "T">>,
       model |-> <<"M", "X", "R", "0", "5", "8", "A">>,
       ver |-> <<"1", "1", ".", "1", "0">>, class |-> "MXRxx8A", chans |-> 8,
       family |-> "MXR", claimed |-> 8],
      [manu |-> <<"K", "E", "Y", "S", "I", "G", "H", "T">>,
       model |-> <<"M", "X", "R", "0", "5", "4", "A">>,
       ver |-> <<"1", "1", ".", "1", "0">>, class |-> "MXRxx4A", chans |-> 4,
       family |-> "MXR", claimed |-> 4],
      [manu |-> <<"K", "E", "Y", "S", "I", "G", "H", "T">>,
       model |-> <<"M", "X", "R", "6", "0", "8", "B">>,
       ver |-> <<"1", "1", ".", "1", "0">>, class |-> "MXR", chans |-> 4,
       family |-> "MXR", claimed |-> 4],
      [manu |-> <<"K", "E", "Y", "S", "I", "G", "H", "T">>,
       model |-> <<"E", "X", "R", "1", "0", "8", "A">>,
       ver |-> <<"1", "1", ".", "1", "0">>, class |-> "EXRxx8A", chans |-> 8,
       family |-> "EXR", claimed |-> 8],
      [manu |-> <<"K", "E", "Y", "S", "I", "G", "H", "T">>,
       model |-> <<"E", "X", "R", "0", "5", "4", "A">>,
       ver |-> <<"1", "1", ".", "1", "0">>, class |-> "EXRxx4A", chans |-> 4,
       family |-> "EXR", claimed |-> 4],
      [manu |-> <<"K", "E", "Y", "S", "I", "G", "H", "T">>,
       model |-> <<"E", "X", "R", "2", "5", "4", "B">>,
       ver |-> <<"1", "1", ".", "1", "0">>, class |-> "EXR", chans |-> 4,
       family |-> "EXR", claimed |-> 4],
      [manu |-> <<"K", "E", "Y", "S", "I", "G", "H", "T">>,
       model |-> <<"U", "X", "R", "0", "1", "3", "4", "A">>,
       ver |-> <<"1", "1", ".", "1", "0">>, class |-> "UXRxxx4A", chans |-> 4,
       family |-> "UXR", claimed |-> 4],
      [manu |-> <<"K", "E", "Y", "S", "I", "G", "H", "T">>,
       model |-> <<"U", "X", "R", "0", "1", "3", "4", "A", "P">>,
       ver |-> <<"1", "1", ".", "1", "0">>, class |-> "UXRxxx4A", chans |-> 4,
       family |-> "UXR", claimed |-> 4],
      [manu |-> <<"K", "E", "Y", "S", "I", "G", "H", "T">>,
       model |-> <<"U", "X", "R", "0", "7", "0", "2", "A">>,
       ver |-> <<"1", "1", ".", "1", "0">>, class |-> "UXRxxx2A", chans |-> 2,
       family |-> "UXR", claimed |-> 2],
      [manu |-> <<"K", "E", "Y", "S", "I", "G", "H", "T">>,
       model |-> <<"U", "X", "R", "0", "7", "0", "2", "A", "P">>,
       ver |-> <<"1", "1", ".", "1", "0">>, class |-> "UXRxxx2A", chans |-> 2,
       family |-> "UXR", claimed |-> 2],
      [manu |-> <<"K", "E", "Y", "S", "I", "G", "H", "T">>,
       model |-> <<"U", "X", "R", "1", "1", "0", "4", "B">>,
       ver |-> <<"1", "1", ".", "1", "0">>, class |-> "UXR", chans |-> 0,
       family |-> "UXR", claimed |-> 0],
      [manu |-> <<"K", "E", "Y", "S", "I", "G", "H", "T">>,
       model |-> <<"D", "S", "O", "-", "X", " ", "3", "0", "3", "4", "A">>,
       ver |-> <<"2", ".", "6", "5">>, class |-> "DSOX3xx4A", chans |-> 4,
       family |-> "DSOX", claimed |-> 4],
      [manu |-> <<"K", "E", "Y", "S", "I", "G", "H", "T">>,
       model |-> <<"D", "S", "O", "-", "X", " ", "3", "0", "1", "2", "A">>,
       ver |-> <<"2", ".", "6", "5">>, class |-> "DSOX3xx2A", chans |-> 2,
       family |-> "DSOX", claimed |-> 2],
      [manu |-> <<"K", "E", "Y", "S", "I", "G", "H", "T">>,
       model |-> <<"D", "S", "O", "-", "X", " ", "3", "0", "2", "4", "T">>,
       ver |-> <<"7", ".", "5", "0">>, class |-> "DSOX3xx4T", chans |-> 4,
       family |-> "DSOX", claimed |-> 4],
      [manu |-> <<"K", "E", "Y", "S", "I", "G", "H", "T">>,
       model |-> <<"D", "S", "O", "-", "X", " ", "3", "0", "1", "2", "T">>,
       ver |-> <<"7", ".", "5", "0">>, class |-> "DSOX3xx2T", chans |-> 2,
       family |-> "DSOX", claimed |-> 2],
      [manu |-> <<"K", "E", "Y", "S", "I", "G", "H", "T">>,
       model |-> <<"D", "S", "O", "-", "X", " ", "2", "0", "2", "4", "A">>,
       ver |-> <<"2", ".", "6", "5">>, class |-> "DSOX", chans |-> 2,
       family |-> "DSOX", claimed |-> 4],
      [manu |-> <<"K", "E", "Y", "S", "I", "G", "H", "T">>,
       model |-> <<"D", "S", "O", "-", "X", " ", "3", "1", "0", "4", "G">>,
       ver |-> <<"2", ".", "6", "5">>, class |-> "DSOX", chans |-> 2,
       family |-> "DSOX", claimed |-> 2],
      [manu |-> <<"K", "E", "Y", "S", "I", "G", "H", "T">>,
       model |-> <<"M", "S", "O", "-", "X", " ", "3", "0", "3", "4", "A">>,
       ver |-> <<"2", ".", "6", "5">>, class |-> "MSOX3xx4A", chans |-> 4,
       family |-> "MSOX", claimed |-> 4],
      [manu |-> <<"K", "E", "Y", "S", "I", "G", "H", "T">>,
       model |-> <<"M", "S", "O", "-", "X", " ", "3", "0", "1", "2", "A">>,
       ver |-> <<"2", ".", "6", "5">>, class |-> "MSOX3xx2A", chans |-> 2,
       family |-> "MSOX", claimed |-> 2],
      [manu |-> <<"K", "E", "Y", "S", "I", "G", "H", "T">>,
       model |-> <<"M", "S", "O", "-", "X", " ", "3", "1", "0", "4", "T">>,
       ver |-> <<"7", ".", "5", "0">>, class |-> "MSOX3xx4T", chans |-> 4,
       family |-> "MSOX", claimed |-> 4],
      [manu |-> <<"K", "E", "Y", "S", "I", "G", "H", "T">>,
       model |-> <<"M", "S", "O", "-", "X", " ", "3", "0", "5", "2", "T">>,
       ver |-> <<"7", ".", "5", "0">>, class |-> "MSOX3xx2T", chans |-> 2,
       family |-> "MSOX", claimed |-> 2],
      [manu |-> <<"K", "E", "Y", "S", "I", "G", "H", "T">>,
       model |-> <<"M", "S", "O", "-", "X", " ", "4", "1", "5", "4", "A">>,
       ver |-> <<"7", ".", "5", "0">>, class |-> "MSOX", chans |-> 2,
       family |-> "MSOX", claimed |-> 4],
      [manu |-> <<"K", "E", "Y", "S", "I", "G", "H", "T">>,
       model |-> <<"m", "s", "o", "-", "x", " ", "3", "0", "3", "4", "a">>,
       ver |-> <<"2", ".", "6", "5">>, class |-> "MSOX3xx4A", chans |-> 4,
       family |-> "MSOX", claimed |-> 4],
      [manu |-> <<"K", "E", "Y", "S", "I", "G", "H", "T">>,
       model |-> <<"M", "S", "O", "X", "3", "0", "3", "4", "A">>,
       ver |-> <<"2", ".", "6", "5">>, class |-> "Keysight", chans |-> 2,
       family |-> "Keysight", claimed |-> 2],
      [manu |-> <<"K", "E", "Y", "S", "I", "G", "H", "T">>,
       model |-> <<"D", "S", "O", "9", "1", "0", "4", "A">>,
       ver |-> <<"2", ".", "6", "5">>, class |-> "Keysight", chans |-> 2,
       family |-> "Keysight", claimed |-> 2],
      [manu |-> <<"A", "g", "i", "l", "e", "n", "t", " ", "T", "e", "c", "h", "n", "o", "l", "o", "g", "i", "e", "s">>,
       model |-> <<"D", "S", "O", "-", "X", " ", "3", "0", "3", "4", "A">>,
       ver |-> <<"2", ".", "6", "5">>, class |-> "DSOX3xx4A", chans |-> 4,
       family |-> "DSOX", claimed |-> 4],
      [manu |-> <<"A", "G", "I", "L", "E", "N", "T", " ", "T", "E", "C", "H", "N", "O", "L", "O", "G", "I", "E", "S">>,
       model |-> <<"M", "S", "O", "7", "1", "0", "4", "B">>,
       ver |-> <<"2", ".", "6", "5">>, class |-> "Keysight", chans |-> 2,
       family |-> "Keysight", claimed |-> 2],
      [manu |-> <<"T", "E", "K", "T", "R", "O", "N", "I", "X">>,
       model |-> <<"M", "X", "R", "0", "5", "4", "A">>,
       ver |-> <<"1", "1", ".", "1", "0">>, class |-> "Oscilloscope", chans |-> 1,
       family |-> "generic", claimed |-> 1],
      [manu |-> <<"R", "I", "G", "O", "L">>,
       model |-> <<"D", "S", "1", "1", "0", "4", "Z">>,
       ver |-> <<"2", ".", "6", "5">>, class |-> "Oscilloscope", chans |-> 1,
       family |-> "generic", claimed |-> 1] }

IdnOf(c) == Idn(c.manu, c.model, SN1, c.ver)

ResolveDevices == {IdnOf(c) : c \in ResolveCases}

OtherResource == "USB0::0x2A8D::0x1770::MY1::INSTR"

Resources == {DefaultResource, OtherResource}

\* wait, in milliseconds.
Waits == {0, 500}

\* A generic object, as the examples make it: Oscilloscope(resource) or
\* Oscilloscope(resource, wait=...).
InitResolve ==
    /\ cls = "Oscilloscope"
    /\ resource \in Resources
    /\ wait \in Waits
    /\ dev \in ResolveDevices
    /\ versionLegacy = versionLegacyOf(cls)
    /\ Fresh
    /\ Bench
    /\ noise = 0

NextResolve ==
    \/ GetBestClass
    \/ OpenResource
    \/ DeviceClear
    \/ CloseStep
    \/ SelectClass
    \/ Open
    \/ Close
    \/ NoWaveformData
    \/ KeysightWaveformData
    \/ Call
    \/ DrainRead
    \/ DrainReturn

ResolveSpec == InitResolve /\ [][NextResolve]_vars

\* The case of the instrument.
TheResolveCase == CHOOSE c \in ResolveCases : dev = IdnOf(c)

\* getBestClass has just returned an object.
Resolved == called.name = "getBestClass" /\ op = Idle /\ result = "ok"

\* The family of a class.
Family(c) ==
    CASE c \in {"MXR", "MXRxx8A", "MXRxx4A"} -> "MXR"
      [] c \in {"EXR", "EXRxx8A", "EXRxx4A"} -> "EXR"
      [] c \in UXRClasses -> "UXR"
      [] c \in {"DSOX", "DSOX3xx2A", "DSOX3xx4A", "DSOX3xx2T", "DSOX3xx4T"} -> "DSOX"
      [] IsMSOX(c) -> "MSOX"
      [] c = "Keysight" -> "Keysight"
      [] OTHER -> "generic"

\* C14, as the specification states it: the object returned is of the
\* family that the prefix of the model names and has the number of channels
\* that its suffix names (the generic number of the family for any other
\* suffix).
C14_ByPrefixAndSuffix ==
    Resolved =>
        /\ Family(cls) = TheResolveCase.family
        /\ cls \notin UXRClasses => max_chan(cls) = TheResolveCase.claimed

\* C14, amended: the object returned is of the class expected, which for
\* the DSO-X and MSO-X models is one with the number of channels of the
\* suffix only for the 3000 series; an object of another manufacturer's
\* instrument is the generic object itself, closed and with its identity.
C14_ClassByIdentity ==
    /\ Resolved =>
        /\ cls = TheResolveCase.class
        /\ cls \notin UXRClasses => max_chan(cls) = TheResolveCase.chans
        /\ cls = "Oscilloscope" =>
              /\ called.cls = "Oscilloscope"
              /\ inst = "Closed"
              /\ IDNmodel = TheResolveCase.model
    /\ cls \in {"Oscilloscope", TheResolveCase.class}

\* C14's case: for a DSO-X of the 2000 series with four channels,
\* getBestClass has returned an object of the generic DSOX class, which has
\* two.
C14_Witness ==
    /\ Resolved
    /\ TheResolveCase.model = <<"D", "S", "O", "-", "X", " ", "2", "0", "2", "4", "A">>
    /\ cls = "DSOX"
    /\ max_chan(cls) = 2


(***************************************************************************)
(* The channels of the object that getBestClass returns.                   *)
(***************************************************************************)
\* The object is one that getBestClass made for the instrument c.
MadeFor(c) == dev = IdnOf(c) /\ cls # "Oscilloscope"

DSOX3034A ==
    [manu |-> KEYSIGHT, model |-> Model3034A, ver |-> <<"2", ".", "6", "5">>]

\* The channel of the call of waveformData that was made last.
Fetched(ch) == called.name = "waveformData" /\ AskedChannel = PyStr(ch)

MSOX3034A ==
    [manu |-> KEYSIGHT, model |-> <<"M", "S", "O", "X", "3", "0", "3", "4", "A">>, ver |-> <<"2", ".", "6", "5">>]

MSO_X3034A ==
    [manu |-> KEYSIGHT, model |-> <<"M", "S", "O", "-", "X", " ", "3", "0", "3", "4", "A">>, ver |-> <<"2", ".", "6", "5">>]

Pods == {PyStr("POD1"), PyStr("POD2")}

Chans(n) == {PyStr("CHAN" \o NumStr[x]) : x \in 1..n}

\* C16, as the specification states it: the object made for ("KEYSIGHT",
\* "MSOX3034A", "SN1", "2.65") has POD1 and POD2 among its valid channels.
C16_MSOXHasPods ==
    MadeFor(MSOX3034A) => Pods \subseteq Range(chanAllValidList(cls))

\* C16, amended: the object made for ("KEYSIGHT", "MSO-X 3034A", "SN1",
\* "2.65") is of the 4-channel MSOX class and its valid channels are CHAN1
\* to CHAN4, POD1 and POD2; the object made for the model "MSOX3034A", which
\* does not begin with "MSO-X", is of the generic Keysight class and its
\* valid channels are CHAN1 and CHAN2 only: a fetch of POD1 is rejected.
C16_PodsForMSO_X ==
    /\ MadeFor(MSO_X3034A) =>
          /\ cls = "MSOX3xx4A"
          /\ Range(chanAllValidList(cls)) = Chans(4) \cup Pods
          /\ Fetched("POD1") => result # "ValueError"
    /\ MadeFor(MSOX3034A) =>
          /\ cls = "Keysight"
          /\ Range(chanAllValidList(cls)) = Chans(2)
          /\ Fetched("POD1") => result = "ValueError"

\* C16's case: the object made for the MSO-X 3034A is open and a fetch of
\* POD1 has passed the validation and has run to its end.
C16_Witness ==
    /\ MadeFor(MSO_X3034A)
    /\ inst = "Open"
    /\ Fetched("POD1")
    /\ called.channel = PyStr("POD1")
    /\ result = "ok"

\* The object made for the model "MSOX3034A" is open and a fetch of POD1
\* was rejected.
C16_WitnessRejected ==
    /\ MadeFor(MSOX3034A)
    /\ inst = "Open"
    /\ Fetched("POD1")
    /\ result = "ValueError"


(***************************************************************************)
(* What the object that getBestClass returns is made of.                   *)
(***************************************************************************)
\* C17: the object that getBestClass returns has the resource and the wait
\* of the object it was called on, whatever its class.
C17_ResourceAndWaitCarried ==
    Resolved => resource = called.resource /\ wait = called.wait

\* C17's case: getBestClass was called on a generic object made with a
\* resource and a wait other than the defaults and has returned an object of
\* another class.
C17_Witness ==
    /\ Resolved
    /\ called.cls = "Oscilloscope"
    /\ cls = "MXRxx8A"
    /\ resource = OtherResource
    /\ wait = 500


\* The firmware version of the identities above, read by hand.
VersionOf(c) ==
    CASE c.ver = <<"2", ".", "6", "5">> -> FloatV(2650)
      [] c.ver = <<"7", ".", "5", "0">> -> FloatV(7500)
      [] c.ver = <<"1", "1", ".", "1", "0">> -> FloatV(11100)

\* The object holds the identity and the firmware version of the instrument.
Identified ==
    /\ IDNmanu = TheResolveCase.manu
    /\ IDNmodel = TheResolveCase.model
    /\ IDNserial = SN1
    /\ version = VersionOf(TheResolveCase)

\* The object is as its constructor left it.
Unopened ==
    /\ inst = "None"
    /\ IDNmanu = <<>> /\ IDNmodel = <<>> /\ IDNserial = <<>>
    /\ version = FloatV(0)
    /\ versionLegacy = versionLegacyOf(cls)
    /\ legacyError

\* C18, as the specification states it: the object that getBestClass
\* returns holds the identity and the firmware version.
C18_ReturnedIdentified == Resolved => Identified

\* C18, amended: getBestClass returns, for an instrument of Keysight or
\* Agilent, an object of the class chosen that is unopened (no handle, no
\* identity, version 0.0) and, for any other instrument, the generic object
\* itself, closed and identified; an open() that succeeds leaves the object
\* open and identified, whatever went before, and a close() fails only on an
\* object that was never opened.
C18_ReturnedUnopened ==
    /\ Resolved =>
          IF TheResolveCase.class = "Oscilloscope"
          THEN cls = "Oscilloscope" /\ inst = "Closed" /\ Identified
          ELSE cls = TheResolveCase.class /\ Unopened
    /\ (called.name = "open" /\ op = Idle /\ result = "ok") =>
          inst = "Open" /\ Identified
    /\ (called.name = "close" /\ result # "ok") => inst = "None"

\* C18's case: the object that getBestClass returned was opened, and is
\* identified, of the specific class and of the modern dialect.
C18_Witness ==
    /\ called.name = "open" /\ op = Idle /\ result = "ok"
    /\ cls = "MXRxx4A"
    /\ inst = "Open"
    /\ Identified
    /\ Dialect = "Modern"


(***************************************************************************)
(* The waveform fetch: the preamble and the values.                        *)
(***************************************************************************)
\* The places of the trail where one of the commands cmds was sent.
Sent(cmds) == {i \in 1..Len(trail) : trail[i] \in cmds}

SourceCmds ==
    {":WAVeform:SOURce " \o c.s : c \in Range(chanAllValidList(cls))}

FormatCmds ==
    {":WAVeform:FORMat BINary", ":WAVeform:FORMat BYTE",
     ":WAVeform:FORMat WORD"}

PreambleCmds == {":WAVeform:PREamble?"}

\* What a fetch of an analog channel returns as vertical values (in
\* thousandths) for each preamble and block of the model, computed by hand
\* from the Y increment, Y origin and Y reference of that preamble.
ExpectedY ==
    { [preamble |-> RStrip(NewWORD, {"\n"}), block |-> <<177, 3>>,
       y |-> <<473500>>],
      [preamble |-> RStrip(NewWORD, {"\n"}), block |-> <<16, 0>>,
       y |-> <<9000>>],
      [preamble |-> RStrip(NewBYTE, {"\n"}), block |-> <<177, 3>>,
       y |-> <<-189500, -25500>>],
      [preamble |-> RStrip(NewBYTE, {"\n"}), block |-> <<16, 0>>,
       y |-> <<500, -31500>>],
      [preamble |-> LegacyBYTE, block |-> <<177, 3>>,
       y |-> <<25500, -61500>>],
      [preamble |-> LegacyBYTE, block |-> <<16, 0>>,
       y |-> <<-55000, -63000>>],
      [preamble |-> LegacyWORD, block |-> <<177, 3>>,
       y |-> <<154500, -193500>>],
      [preamble |-> LegacyWORD, block |-> <<16, 0>>,
       y |-> <<-167500, -199500>>] }

\* A fetch has returned its tuple.
FetchReturned == called.name = "waveformData" /\ op = Idle /\ result = "ok"

\* C19: in a waveform fetch of either dialect the data query comes after the
\* one preamble query of the fetch, which comes after the source and the
\* format were set; and the vertical values that a fetch of an analog
\* channel returns are those that the preamble and the block answered in
\* this fetch give, whatever the fetches before were answered.
C19_PreambleOfThisFetch ==
    /\ called.name = "waveformData" =>
          /\ Cardinality(Sent(PreambleCmds)) <= 1
          /\ \A d \in Sent(DataQueries) : \E p \in Sent(PreambleCmds) : p < d
          /\ \A p \in Sent(PreambleCmds) :
                /\ \E i \in Sent(SourceCmds) : i < p
                /\ \E i \in Sent(FormatCmds) : i < p
    /\ (FetchReturned /\ called.channel = PyStr("CHAN1")) =>
          \E e \in ExpectedY :
              /\ e.preamble = called.preamble
              /\ e.block = called.block
              /\ returned.y = e.y

\* C19's case: a fetch of CHAN1 in the legacy dialect has returned the
\* values of the block <<177, 3>> under the second preamble.
C19_Witness ==
    /\ FetchReturned
    /\ called.channel = PyStr("CHAN1")
    /\ Dialect = "Legacy"
    /\ called.preamble = LegacyWORD
    /\ returned.y = <<154500, -193500>>

\* The preambles of the model whose format code is in no table, by hand.
UnknownFormat == {RStrip(NewCode7, {"\n"}), LegacyCode2}

\* C20: a fetch whose preamble carries a format code that is not in the
\* table of the dialect has failed with an error when the preamble was read:
\* it returns nothing and has not asked for the data.
C20_UnknownFormatAborts ==
    (called.name = "waveformData" /\ called.preamble \in UnknownFormat) =>
        /\ op = Idle
        /\ result = "KeyError"
        /\ returned = PyNone
        /\ Sent(DataQueries) = {}

\* C20's case: the fetch was of the modern dialect on an open session, and
\* the preamble had the format code 7.
C20_Witness ==
    /\ inst = "Open"
    /\ Dialect = "Modern"
    /\ called.name = "waveformData"
    /\ called.preamble = RStrip(NewCode7, {"\n"})
    /\ result = "KeyError"

\* The same in the legacy dialect, with the format code 2.
C20_WitnessLegacy ==
    /\ inst = "Open"
    /\ Dialect = "Legacy"
    /\ called.name = "waveformData"
    /\ called.preamble = LegacyCode2
    /\ result = "KeyError"

(***************************************************************************)
(* The waveform fetch: the horizontal axis.                                *)
(***************************************************************************)
\* The channel of the last call: its argument, or the current channel.
TheChannel == IF called.channel = PyNone THEN curr_chan ELSE called.channel

\* The horizontal parameters of the preambles of the oscilloscope model, read
\* off the preambles by hand, in thousandths: X increment, X origin, X
\* reference, and the sample in the middle of the display, which is
\* (X display range / 2 + X display origin - X origin) / X increment.
XParams ==
    { [preamble |-> RStrip(AnalogBYTE, {"\n"}), inc |-> 1, org |-> 0,
       ref |-> 0, mid |-> 8],
      [preamble |-> RStrip(AnalogWORD, {"\n"}), inc |-> 500, org |-> -1000,
       ref |-> 2, mid |-> 10],
      [preamble |-> RStrip(DigitalBYTE, {"\n"}), inc |-> 500, org |-> 0,
       ref |-> 0, mid |-> 8],
      [preamble |-> RStrip(DigitalWORD, {"\n"}), inc |-> 500, org |-> 0,
       ref |-> 0, mid |-> 8],
      [preamble |-> RStrip(AnalogLONG, {"\n"}), inc |-> 500, org |-> 0,
       ref |-> 0, mid |-> 8],
      [preamble |-> RStrip(HistLONGLONG, {"\n"}), inc |-> 500, org |-> 0,
       ref |-> 0, mid |-> 8],
      [preamble |-> RStrip(AnalogFLOat, {"\n"}), inc |-> 500, org |-> 0,
       ref |-> 0, mid |-> 8],
      [preamble |-> LegacyBYTE, inc |-> 500, org |-> 0, ref |-> 0, mid |-> 0],
      [preamble |-> LegacyWORD, inc |-> 500, org |-> 0, ref |-> 0, mid |-> 0] }

\* Half of the points asked for.
HalfPoints == [p \in {"4", "20"} |-> IF p = "4" THEN 2 ELSE 10]

\* A centered window was asked for: points were passed, in the modern
\* dialect, for a source that is no histogram.
Windowed ==
    /\ called.name = "waveformData"
    /\ called.points # "None"
    /\ Dialect = "Modern"
    /\ TheChannel # PyStr("HIST")

\* The first sample of the window, by hand.
WindowStart(c) == IF Windowed THEN c.mid - HalfPoints[called.points] ELSE 0

\* The samples the block of the fetch holds, by the width of the format of
\* the preamble (the legacy dialect reads bytes).
Samples ==
    IF Dialect = "Legacy" THEN Len(called.block)
    ELSE CASE called.preamble \in {RStrip(AnalogBYTE, {"\n"}),
                                   RStrip(DigitalBYTE, {"\n"})} ->
                Len(called.block)
           [] called.preamble \in {RStrip(AnalogWORD, {"\n"}),
                                   RStrip(DigitalWORD, {"\n"})} ->
                Len(called.block) \div 2
           [] called.preamble = RStrip(HistLONGLONG, {"\n"}) ->
                Len(called.block) \div 8
           [] OTHER -> Len(called.block) \div 4

\* C21: a fetch that has returned a waveform of n samples has returned a
\* horizontal axis of n values, the i-th of which (from 0) is
\* ((i - X reference + window start) * X increment) + X origin, with the
\* numbers of the preamble of the fetch; the window start is 0 unless a
\* centered window was asked for in the modern dialect.
C21_XAxis ==
    FetchReturned =>
        \E c \in XParams :
            /\ c.preamble = called.preamble
            /\ returned.n = Samples
            /\ Len(returned.x) = returned.n
            /\ \A i \in 0..(returned.n - 1) :
                  returned.x[i + 1]
                      = ((i - c.ref + WindowStart(c)) * c.inc) + c.org

\* C21's case: X increment 0.001, X origin 0, X reference 0 and a block of
\* 10 samples of one byte: the axis is 0, 0.001, ..., 0.009 (the claim's
\* example, with the unit of time a thousand times longer).
C21_Witness ==
    /\ FetchReturned
    /\ called.preamble = RStrip(AnalogBYTE, {"\n"})
    /\ called.points = "None"
    /\ returned.n = 10
    /\ returned.x = <<0, 1, 2, 3, 4, 5, 6, 7, 8, 9>>

\* A second case: a window of 4 points centered on the display, under a
\* preamble with X reference 2: the axis begins at sample 8 - 2.
C21_WitnessWindow ==
    /\ FetchReturned
    /\ called.preamble = RStrip(AnalogWORD, {"\n"})
    /\ called.points = "4"
    /\ returned.n = 5
    /\ returned.x = <<2000, 2500, 3000, 3500, 4000>>

(***************************************************************************)
(* The waveform fetch: the vertical values.                                *)
(***************************************************************************)
\* The lanes of the bytes 177 (binary 10110001) and 3 (binary 00000011),
\* lowest bit first, written out by hand.
Lanes177and3 ==
    << <<1, 1>>, <<0, 1>>, <<0, 0>>, <<0, 0>>,
       <<1, 0>>, <<1, 0>>, <<0, 0>>, <<1, 0>> >>

\* What the value axis of a fetch is to be, for a channel, a preamble and a
\* block of whole elements of the preamble's format, computed by hand, in
\* thousandths where the values are scaled: the formats LONG and (legacy)
\* WORD first, then BYTE, WORD, LONGLONG on a histogram, FLOat, a bus and
\* the pods.
WideCases ==
    { [channel |-> "CHAN1", preamble |-> RStrip(AnalogLONG, {"\n"}),
       block |-> <<0, 0, 192, 63, 0, 0, 0, 0>>, y |-> <<1069547520, 0>>],
      [channel |-> "CHAN1", preamble |-> LegacyWORD,
       block |-> <<177, 3>>, y |-> <<1690500>>] }

OtherCases ==
    { [channel |-> "CHAN1", preamble |-> RStrip(AnalogBYTE, {"\n"}),
       block |-> <<177, 3>>, y |-> <<-189500, -25500>>],
      [channel |-> "CHAN1", preamble |-> RStrip(AnalogWORD, {"\n"}),
       block |-> <<177, 3>>, y |-> <<473500>>],
      [channel |-> "HIST", preamble |-> RStrip(HistLONGLONG, {"\n"}),
       block |-> <<0, 0, 192, 63, 0, 0, 0, 0>>, y |-> <<1069547520>>],
      [channel |-> "CHAN1", preamble |-> RStrip(AnalogFLOat, {"\n"}),
       block |-> <<0, 0, 192, 63, 0, 0, 0, 0>>, y |-> <<1500, 0>>],
      [channel |-> "BUS1", preamble |-> RStrip(DigitalWORD, {"\n"}),
       block |-> <<177, 3>>, y |-> <<945>>],
      [channel |-> "POD1", preamble |-> RStrip(DigitalBYTE, {"\n"}),
       block |-> <<177, 3>>, y |-> Lanes177and3],
      [channel |-> "CHAN1", preamble |-> LegacyBYTE,
       block |-> <<177, 3>>, y |-> <<25500, -61500>>],
      [channel |-> "BUS1", preamble |-> LegacyBYTE,
       block |-> <<177, 3>>, y |-> <<177, 3>>],
      [channel |-> "POD1", preamble |-> LegacyBYTE,
       block |-> <<177, 3>>, y |-> Lanes177and3] }

\* The fetch of the case c has received its block.
Decoded(c) ==
    /\ called.name = "waveformData"
    /\ op = Idle
    /\ TheChannel = PyStr(c.channel)
    /\ called.preamble = c.preamble
    /\ called.block = c.block

\* C22, as the specification states it: the value axis of a fetch is built
\* by channel class and format: the raw codes of a bus, the bit lanes of a
\* pod, the raw values of the floating format, and for every other format
\* (byte, word, long, longlong) ((raw - Y reference) * Y increment) + Y
\* origin, with raw decoded at the width of the format.
C22_ValueAxis ==
    \A c \in WideCases \cup OtherCases :
        Decoded(c) => (result = "ok" /\ returned.y = c.y)

\* What holds of the program: the same for the formats other than LONG and,
\* in the legacy dialect, WORD.
C22_ValueAxisButWide ==
    \A c \in OtherCases : Decoded(c) => (result = "ok" /\ returned.y = c.y)

\* The fetch of a LONG waveform fails in struct.unpack where a C long is 8
\* bytes, and returns the scaled values where it is 4 bytes.
C22_LongByHost ==
    \A c \in WideCases :
        (Decoded(c) /\ Dialect = "Modern") =>
            IF host = "LP64" THEN result = "struct.error" /\ returned = PyNone
            ELSE result = "ok" /\ returned.y = c.y

(***************************************************************************)
(* The waveform fetch: the digital pods.                                   *)
(***************************************************************************)
\* The bits of the bytes of the blocks of the model, lowest first, written
\* out by hand.
BitsOf(byte) ==
    CASE byte = 177 -> <<1, 0, 0, 0, 1, 1, 0, 1>>
      [] byte = 3 -> <<1, 1, 0, 0, 0, 0, 0, 0>>
      [] byte = 0 -> <<0, 0, 0, 0, 0, 0, 0, 0>>
      [] byte = 192 -> <<0, 0, 0, 0, 0, 0, 1, 1>>
      [] byte = 63 -> <<1, 1, 1, 1, 1, 1, 0, 0>>
      [] byte = 16 -> <<0, 0, 0, 0, 1, 0, 0, 0>>
      [] byte = 255 -> <<1, 1, 1, 1, 1, 1, 1, 1>>
      [] byte = 128 -> <<0, 0, 0, 0, 0, 0, 0, 1>>
      [] byte = 1 -> <<1, 0, 0, 0, 0, 0, 0, 0>>
      [] byte = 2 -> <<0, 1, 0, 0, 0, 0, 0, 0>>
      [] byte = 4 -> <<0, 0, 1, 0, 0, 0, 0, 0>>
      [] byte = 8 -> <<0, 0, 0, 1, 0, 0, 0, 0>>

\* The labels of the lanes of the two pods: D((pod-1)*8 + k).
PodLabels(channel) ==
    IF channel = PyStr("POD1")
    THEN <<"D0", "D1", "D2", "D3", "D4", "D5", "D6", "D7">>
    ELSE <<"D8", "D9", "D10", "D11", "D12", "D13", "D14", "D15">>

\* The preamble of the fetch reports the format WORD.
WordReported ==
    called.preamble \in {RStrip(DigitalWORD, {"\n"}), LegacyWORD}

\* The byte that holds the bits 0..7 of sample i (from 1) of the block: the
\* samples are bytes, or, where the modern routine reads words, the lower
\* byte of each word comes first.
LowByte(i) ==
    IF Dialect = "Modern" /\ WordReported THEN called.block[(2 * i) - 1]
    ELSE called.block[i]

\* A pod has been fetched and decoded: in the modern dialect the preamble
\* reports the acquire type of digital data.
PodDecoded ==
    /\ FetchReturned
    /\ TheChannel \in {PyStr("POD1"), PyStr("POD2")}
    /\ \/ Dialect = "Legacy"
       \/ called.preamble \in {RStrip(DigitalBYTE, {"\n"}),
                               RStrip(DigitalWORD, {"\n"})}

LanesAreBits ==
    /\ Len(returned.y) >= 8
    /\ \A k \in 1..8 : \A i \in 1..returned.n :
          returned.y[k][i] = BitsOf(LowByte(i))[k]

LabelsByEight ==
    /\ Len(returned.header) >= 9
    /\ returned.header[1] = "Time (s)"
    /\ \A k \in 1..8 : returned.header[k + 1] = PodLabels(TheChannel)[k]

\* C23, as the specification states it: in a decoded pod, lane k (0..7) of
\* every sample is bit k of the sample, and the lanes are labeled
\* D((pod-1)*8 + k), in both dialects.
C23_PodLanes == PodDecoded => (LanesAreBits /\ LabelsByEight)

\* What holds of the program: the lanes are the bits in every case; there
\* are 8 lanes labeled D((pod-1)*8 + k) when the preamble reports the format
\* BYTE, and 16 lanes labeled D((pod-1)*16 + k) when it reports WORD.
C23_PodLanesByFormat ==
    PodDecoded =>
        /\ LanesAreBits
        /\ IF WordReported
           THEN /\ Len(returned.y) = 16
                /\ returned.header[2] =
                      (IF TheChannel = PyStr("POD1") THEN "D0" ELSE "D16")
           ELSE Len(returned.y) = 8 /\ LabelsByEight

\* The claim's example: the byte 177 on pod 1, in the legacy dialect.
C23_Example ==
    /\ PodDecoded
    /\ Dialect = "Legacy"
    /\ TheChannel = PyStr("POD1")
    /\ called.block = <<177, 3>>
    /\ [k \in 1..8 |-> returned.y[k][1]] = <<1, 0, 0, 0, 1, 1, 0, 1>>
    /\ returned.header
          = <<"Time (s)", "D0", "D1", "D2", "D3", "D4", "D5", "D6", "D7">>

(***************************************************************************)
(* The waveform fetch: the centered window.                                *)
(***************************************************************************)
\* The data queries the last operation sent.
DataQueriesSent == {trail[i] : i \in Sent(DataQueries)}

\* The data query of a centered window, written out by hand for the two
\* middles of the preambles and the two point counts of the model: the
\* window begins at the middle less half of the points.
WindowQuery(mid, points) ==
    CASE mid = 8 /\ points = "4" -> ":WAVeform:DATA? 6,4"
      [] mid = 8 /\ points = "20" -> ":WAVeform:DATA? -2,20"
      [] mid = 10 /\ points = "4" -> ":WAVeform:DATA? 8,4"
      [] mid = 10 /\ points = "20" -> ":WAVeform:DATA? 0,20"

\* The modern routine has just read the preamble of a fetch with points.
PreambleJustRead ==
    /\ op # Idle
    /\ op.name = "waveformData"
    /\ ~op.legacy
    /\ op.points # "None"
    /\ stack = <<>>
    /\ Script(op)[op.pc].str = "WAVeform:STReaming OFF"

\* C24: in the modern dialect a fetch with a point count N of a source
\* that is no histogram asks for N points from start = midpoint - N div 2,
\* the midpoint being that of the display by the preamble, and the time axis
\* it returns begins at that start; for a histogram the data query carries
\* no window, the axis begins at 0, all samples of the block are returned,
\* and the warning is printed when the preamble has been read.
C24_CenteredWindow ==
    /\ (FetchReturned /\ Dialect = "Modern" /\ called.points # "None") =>
          \E c \in XParams :
              /\ c.preamble = called.preamble
              /\ returned.n = Samples
              /\ IF TheChannel = PyStr("HIST")
                 THEN /\ DataQueriesSent = {":WAVeform:DATA?"}
                      /\ returned.x[1] = ((0 - c.ref) * c.inc) + c.org
                 ELSE /\ DataQueriesSent = {WindowQuery(c.mid, called.points)}
                      /\ returned.x[1]
                            = ((c.mid - HalfPoints[called.points] - c.ref)
                                  * c.inc) + c.org
    /\ PreambleJustRead =>
          (WarningLine \in Range(printed) <=> op.channel = PyStr("HIST"))

\* C24's case: 4 points around the middle of a display whose middle is
\* sample 8: the query asks for 4 points from sample 6 and the axis begins
\* at sample 6.
C24_Witness ==
    /\ FetchReturned
    /\ Dialect = "Modern"
    /\ called.points = "4"
    /\ TheChannel = PyStr("CHAN1")
    /\ called.preamble = RStrip(AnalogBYTE, {"\n"})
    /\ DataQueriesSent = {":WAVeform:DATA? 6,4"}
    /\ returned.x[1] = 6

\* The histogram with points: the warning at the preamble, and the whole
\* block returned from sample 0.
C24_WitnessWarning ==
    /\ PreambleJustRead
    /\ op.channel = PyStr("HIST")
    /\ WarningLine \in Range(printed)

C24_WitnessHistogram ==
    /\ FetchReturned
    /\ Dialect = "Modern"
    /\ called.points = "20"
    /\ TheChannel = PyStr("HIST")
    /\ DataQueriesSent = {":WAVeform:DATA?"}
    /\ returned.n = 1
    /\ returned.x[1] = 0

(***************************************************************************)
(* The error queue and the primitives.                                     *)
(***************************************************************************)
\* The drain of a write or query of the operation has ended; the write or
\* query itself had succeeded, and the drain has read an entry of the error
\* queue that is not "no error".
EntryAfterSuccess ==
    /\ op # Idle
    /\ Len(stack) = 2
    /\ stack[1].fn \in {"_instWrite", "_instQuery"}
    /\ stack[1].out.err = "none"
    /\ stack[2].fn = "checkInstErrors"
    /\ stack[2].pc = "ret"
    /\ stack[2].errors
    /\ "entry" \in stack[2].seen

\* C25: when the drain after a successful write or query has found an entry
\* other than "no error", the primitive returns as it does without one: no
\* exception of the transport and no exit, the handle stays open, a step
\* that has nothing to parse is followed by the next step of the operation
\* (or ends the operation normally), and the answer to the preamble query
\* is the one handed to the operation.
C25_EntryDoesNotAbort ==
    [][EntryAfterSuccess =>
          /\ proc' = "running"
          /\ inst' = inst
          /\ stack' = <<>>
          /\ result' \notin (VisaIOErrors \cup {"SystemExit", "InstrumentError"})
          /\ Script(op)[op.pc].then = "" =>
                IF op.pc < Len(Script(op))
                THEN op' = [op EXCEPT !.pc = @ + 1] /\ result' = "none"
                ELSE op' = Idle /\ result' = "ok"
          /\ Script(op)[op.pc].then = "preamble" =>
                called'.preamble = RStrip(stack[1].out.data, {"\n"})]_vars

\* C25's case: a write of an operation has succeeded and its drain has read
\* an entry; the operation is still in progress on an open handle.
C25_Witness ==
    /\ EntryAfterSuccess
    /\ stack[1].fn = "_instWrite"
    /\ inst = "Open"
    /\ proc = "running"
    /\ result = "none"

\* The same after a query, and with the operation at a step before its last.
C25_WitnessQuery ==
    /\ EntryAfterSuccess
    /\ stack[1].fn = "_instQuery"
    /\ op.pc < Len(Script(op))

(***************************************************************************)
(* The waveform fetch: what is set before the preamble is read.            *)
(***************************************************************************)
ByteOrderCmds ==
    {":WAVeform:BYTeorder LSBFirst", ":WAVeform:BYTeorder MSBFirst"}

UnsignedCmds == {":WAVeform:UNSigned ON"}

\* The preamble query of a fetch has been sent.
PreambleAsked == called.name = "waveformData" /\ Sent(PreambleCmds) # {}

\* The classes of the sources, by their names.
IsHistogram(c) == c = PyStr("HIST")

IsPod(c) == c \in {PyStr("POD1"), PyStr("POD2"), PyStr("PODALL")}

IsAnalog(c) == c = PyStr("CHAN1")

\* The one place of the trail where a command of cmds was sent, or 0.
Place(cmds) ==
    IF Cardinality(Sent(cmds)) = 1 THEN CHOOSE i \in Sent(cmds) : TRUE ELSE 0

\* The source was selected first, and with the channel of the call.
SourceFirst ==
    /\ Place(SourceCmds) = 1
    /\ trail[1] = ":WAVeform:SOURce " \o TheChannel.s

\* The byte order of this host (little-endian) was set after the format and
\* before the preamble was read.
ByteOrderOfHost ==
    /\ Place(ByteOrderCmds) > Place(FormatCmds)
    /\ trail[Place(ByteOrderCmds)] = ":WAVeform:BYTeorder LSBFirst"
    /\ \A p \in Sent(PreambleCmds) : Place(ByteOrderCmds) < p

\* The format that was asked for, after the source.
FormatAsked ==
    IF Place(FormatCmds) > Place(SourceCmds) THEN trail[Place(FormatCmds)]
    ELSE "none"

C26_WitnessLegacy ==
    /\ PreambleAsked
    /\ Dialect = "Legacy"
    /\ IsAnalog(TheChannel)
    /\ FormatAsked = ":WAVeform:FORMat BYTE"
    /\ Sent(ByteOrderCmds) = {}

(***************************************************************************)
(* The current channel and the channels that are rejected.                 *)
(***************************************************************************)
ChannelOps ==
    {"waveformData", "measureVoltAverage", "measureDVMdc", "channelLabel"}

\* The step is a call of one of the operations that take a channel, and the
\* call fails at once with the ValueError of the validation.
Rejected ==
    /\ op = Idle
    /\ stack = <<>>
    /\ op' = Idle
    /\ result' = "ValueError"
    /\ trail' = <<>>
    /\ called'.name \in ChannelOps

\* C27, as the specification states it: a call that is rejected for its
\* channel leaves the current channel as it was.
C27_RejectedChannelKept == [][Rejected => curr_chan' = curr_chan]_vars

\* What holds of the program: the channel that is passed in has become the
\* current channel when the call is rejected.
C27_RejectedChannelTaken ==
    [][Rejected =>
          curr_chan' = (IF called'.channel # PyNone THEN called'.channel
                        ELSE curr_chan)]_vars

\* The consequence: a measurement without a channel is rejected for the
\* channel that an earlier rejected call has left behind.
C27_LeftBehind ==
    /\ called.name = "measureVoltAverage"
    /\ called.channel = PyNone
    /\ result = "ValueError"
    /\ curr_chan = PyStr("HIST")

(***************************************************************************)
(* The drain: what it returns without a "no error" entry.                  *)
(***************************************************************************)
\* A drain is about to return False.
ReturnsFalse == Draining /\ TopDrain.pc = "ret" /\ ~TopDrain.errors

\* C28, as the specification states it: a drain returns False only if its
\* last read was answered with the "no error" entry of the form asked.
C28_FalseOnlyAfterSentinel == ReturnsFalse => TopDrain.last.kind = "noerror"

\* What holds of the program: a drain that returns False without a "no
\* error" entry has used up its ErrorQueue (30) reads on purely numeric
\* answers to the legacy form and timeouts of the modern form alone, the
\* last of which was one of the two.
C28_FalseAfterSentinelOrFlipping ==
    ReturnsFalse =>
        \/ TopDrain.last.kind = "noerror"
        \/ /\ TopDrain.queries = ErrorQueue
           /\ TopDrain.seen \subseteq {"fallback"}
           /\ TopDrain.last.kind \in {"code", "fallback"}

\* The drain that read 30 times, numeric answers and timeouts in turn, and
\* returns False.
C28_Flipped ==
    /\ ReturnsFalse
    /\ TopDrain.queries = ErrorQueue
    /\ TopDrain.last.kind = "fallback"
    /\ TopDrain.seen = {"fallback"}

(***************************************************************************)
(* The waveform fetch: the window and the acquisition.                     *)
(***************************************************************************)
\* The data queries whose window lies inside the acquisition: every preamble
\* of the oscilloscope model reports 16 points (its third field).
InsideWindows ==
    {":WAVeform:DATA? " \o IntStr(w[1]) \o "," \o IntStr(w[2]) :
        w \in {v \in (0..16) \X (1..16) : v[1] + v[2] <= 16}}

\* C29, as the specification states it: the window that a modern fetch with
\* points sends lies inside the acquisition: its start is at least 0 and
\* start + N is at most the points of the preamble.
C29_WindowInside ==
    (Windowed /\ DataQueriesSent # {}) => DataQueriesSent \subseteq InsideWindows

\* What the program sends for 20 points around sample 8 of 16: a start of
\* -2, and the fetch goes on to return what the instrument answers.
C29_NegativeStart ==
    /\ Windowed
    /\ FetchReturned
    /\ called.points = "20"
    /\ DataQueriesSent = {":WAVeform:DATA? -2,20"}

(***************************************************************************)
(* The analog channels of the measurements and of the fetch.               *)
(***************************************************************************)
AnalogOps == {"measureVoltAverage", "measureDVMdc", "channelLabel"}

\* The step is a fetch without a channel that follows a measurement, a
\* voltmeter reading or a labelling that has succeeded.
FetchAfterAnalogOp ==
    /\ op = Idle
    /\ stack = <<>>
    /\ result = "ok"
    /\ called.name \in AnalogOps
    /\ called'.name = "waveformData"
    /\ called'.channel = PyNone

\* C30, as the specification states it: the channel that a successful
\* measurement, voltmeter reading or labelling has left as the current one
\* is accepted by a following fetch without a channel.
C30_DefaultAccepted ==
    [][FetchAfterAnalogOp => result' # "ValueError"]_vars

\* What holds of the Keysight classes: no channel that the measurements
\* accept is accepted by the fetch, so the fetch without a channel that
\* follows a successful measurement is always rejected.
C30_DefaultRejected ==
    [][FetchAfterAnalogOp =>
          (result' = "ValueError" /\ op' = Idle /\ trail' = <<>>)]_vars

C30_ListsApart ==
    Range(chanAnaValidList(cls)) \cap Range(chanAllValidList(cls)) = {}

\* A measurement of channel '1' has succeeded on an open oscilloscope.
C30_Measured ==
    /\ called.name = "measureVoltAverage"
    /\ called.channel = PyStr("1")
    /\ result = "ok"
    /\ curr_chan = PyStr("1")
    /\ curr_chan \notin Range(chanAllValidList(cls))

====
